---- MODULE Spec2Model ----
(***************************************************************************)
(* Model of the page analyzer of ai-search-optimizer (src/lib/analyzer.ts  *)
(* and src/lib/claude-analyzer.ts) and of the two endpoints that call it   *)
(* (src/app/api/analyze/route.ts, src/app/api/demo-analyze/route.ts).      *)
(*                                                                         *)
(* src/lib/analyzer.ts holds two implementations of the analyzer: the      *)
(* lightweight one (lines 1-709, 15 checks written inline in runAllChecks) *)
(* and the full one (lines 711-2412, 31 check functions).  The variable    *)
(* `variant` says which of the two is running: "lite" or "full".           *)
(*                                                                         *)
(* A page is modelled by what the checks measure on it (element counts,    *)
(* pattern-match counts, lengths, the load time), not by its text: each    *)
(* check is a threshold function of such measurements.  The display-only   *)
(* fields of a Check (name, details) and of a Recommendation (title,       *)
(* description, impact, howToFix, codeExample) are left out.               *)
(*                                                                         *)
(* Arithmetic: Math.round(x) is floor(x + 0.5); the quotients rounded by   *)
(* the code are ratios of integers, computed here exactly.                 *)
(***************************************************************************)
EXTENDS Integers, Sequences, FiniteSets, TLC

VARIABLES
    variant,            \* "lite" | "full": which analyzeUrl is running
    page,               \* the measurements of the fetched page
    includeAI,          \* analyzeUrl's second argument
    apiKey,             \* process.env.ANTHROPIC_API_KEY is set
    pc,                 \* position inside analyzeUrl
    resultMetadata,     \* the metadata of the AnalysisResult: wordCount, loadTime, readability
    attempts,           \* how many times this analysis called fetch(url) and analyzeWithClaude
    checks,             \* const checks
    categories,         \* const categories
    score,              \* let score
    allRecommendations, \* const allRecommendations
    topRecommendations, \* const topRecommendations
    aiAnalysis,         \* let aiAnalysis
    claudeResponse,     \* how the narrative API call went, [kind |-> "none"] before it
    grade,              \* const grade
    error,              \* what analyzeUrl threw, "none" if nothing
    call,               \* the last direct call of a pure helper: [fn, arg, res]
    requests,           \* the requests being handled by the endpoints, one per slot
    users,              \* Clerk's store: user id -> publicMetadata
    rateLimitMap,       \* the demo endpoint's rateLimitMap: ip -> { count, resetTime }
    now,                \* Date.now(), in milliseconds
    month,              \* the calendar month of new Date(): 12 * getFullYear() + getMonth()
    arrivalsLeft,       \* per endpoint, how many more requests will arrive
    granted,            \* per user and month, the analyses of free requests answered 200
    admitted            \* per ip, the requests admitted since the ip's window began,
                        \* when it began, and the windows the ip has had

apiVars == <<requests, users, rateLimitMap, now, month, arrivalsLeft, granted, admitted>>

vars == <<variant, page, includeAI, apiKey, pc, resultMetadata, attempts, checks, categories, score,
          allRecommendations, topRecommendations, aiAnalysis, claudeResponse,
                   grade, error, call, apiVars>>

analyzeVars == <<variant, page, includeAI, apiKey, pc, resultMetadata, attempts, checks, categories, score,
                 allRecommendations, topRecommendations, aiAnalysis, claudeResponse,
                   grade, error>>

(***************************************************************************)
(* Bounds of the model.                                                    *)
(***************************************************************************)
MaxEdits == 1       \* a page differs from a base page in at most this many measurements
MaxChecks == 4      \* longest check list handed directly to a pure helper
AiScoreStep == 25   \* distance between the narrative scores that are tried
AiScoreUnits == 5   \* narrative scores range over -AiScoreStep .. AiScoreUnits * AiScoreStep
GradeSlack == 20    \* scoreToGrade is tried on -GradeSlack .. 100 + GradeSlack

\* a value that may be absent is a sequence: <<>> when absent, <<x>> otherwise
Absent == <<>>

(***************************************************************************)
(* Math.round of the ratio num / den (den > 0): floor(num/den + 1/2).      *)
(***************************************************************************)
MathRound(num, den) == (2 * num + den) \div (2 * den)

Check(id, category, passed, sc, maxScore) ==
    [id |-> id, category |-> category, passed |-> passed, score |-> sc, maxScore |-> maxScore]

Count(s, x) == Cardinality({i \in DOMAIN s : s[i] = x})

(***************************************************************************)
(* The full analyzer's checks (src/lib/analyzer.ts:1454-2164).  p is the   *)
(* page; each operator returns the Check its function returns.             *)
(***************************************************************************)
properHierarchy(levels) ==
    \A i \in 2..Len(levels) : levels[i] <= levels[i - 1] + 1

checkHeadingHierarchy(p) ==
    LET levels == p.headings
        ok == properHierarchy(levels) /\ Len(levels) >= 3
    IN Check("heading-hierarchy", "contentStructure", ok,
             IF ok THEN 10 ELSE IF Len(levels) >= 2 THEN 5 ELSE 0, 10)

checkHasH1(p) ==
    LET hasOne == Count(p.headings, 1) = 1
    IN Check("single-h1", "contentStructure", hasOne, IF hasOne THEN 10 ELSE 0, 10)

checkSubheadings(p) ==
    LET h2s == Count(p.headings, 2)
        h3s == Count(p.headings, 3)
        hasGoodStructure == h2s >= 2 /\ h3s >= 1
    IN Check("subheadings", "contentStructure", hasGoodStructure,
             IF hasGoodStructure THEN 10 ELSE IF h2s >= 1 THEN 5 ELSE 0, 10)

\* checkParagraphStructure with the ratio 1 when there is no paragraph
checkParagraphStructure_emptyPasses(p) ==
    LET all == p.paragraphs[2]
        good == p.paragraphs[1]
        passed == all = 0 \/ 2 * good >= all
    IN Check("paragraph-structure", "contentStructure", passed,
             IF passed THEN 8 ELSE IF 10 * good >= 3 * all THEN 4 ELSE 0, 8)

\* ratio = good / all (0 when there is no paragraph); ratio >= 0.5, ratio >= 0.3
checkParagraphStructure(p) ==
    LET all == p.paragraphs[2]
        good == p.paragraphs[1]
        passed == all > 0 /\ 2 * good >= all
    IN Check("paragraph-structure", "contentStructure", passed,
             IF passed THEN 8 ELSE IF all > 0 /\ 10 * good >= 3 * all THEN 4 ELSE 0, 8)

\* the first JSON-LD script's text mentions FAQPage (undefined without a script)
hasSchemaFAQ(p) == Len(p.jsonLd) > 0 /\ p.jsonLd[1] = "FAQPage"

\* checkHasFAQSection paying the 20 points of the other scale for a schema FAQ
checkHasFAQSection_bonus20(p) ==
    LET passed == p.hasFAQHeading \/ hasSchemaFAQ(p) \/ p.hasQuestionAnswerPattern
    IN Check("faq-section", "contentStructure", passed,
             IF hasSchemaFAQ(p) THEN 20 ELSE IF passed THEN 10 ELSE 0, 15)

checkHasFAQSection(p) ==
    LET passed == p.hasFAQHeading \/ hasSchemaFAQ(p) \/ p.hasQuestionAnswerPattern
    IN Check("faq-section", "contentStructure", passed,
             IF hasSchemaFAQ(p) THEN 15 ELSE IF passed THEN 10 ELSE 0, 15)

checkHasDefinitions(p) ==
    LET count == p.definitionMatches
        passed == count >= 2
    IN Check("definitions", "contentStructure", passed,
             IF passed THEN 8 ELSE IF count >= 1 THEN 4 ELSE 0, 8)

checkContentLength(p) ==
    LET wordCount == p.wordCount
        passed == wordCount >= 800
        good == wordCount >= 1500
    IN Check("content-length", "contentStructure", passed,
             IF good THEN 10 ELSE IF passed THEN 7 ELSE IF wordCount >= 400 THEN 3 ELSE 0, 10)

checkHasLists(p) ==
    LET totalLists == p.uls + p.ols
        passed == totalLists >= 2
    IN Check("has-lists", "contentStructure", passed,
             IF passed THEN 6 ELSE IF totalLists >= 1 THEN 3 ELSE 0, 6)

checkHasStatistics(p) ==
    LET count == p.statMatches
        passed == count >= 3
    IN Check("statistics", "citationReadiness", passed,
             IF passed THEN 15 ELSE IF count >= 1 THEN 7 ELSE 0, 15)

checkHasQuotableStatements(p) ==
    LET quotable == p.quotableSentences
        passed == quotable >= 5
    IN Check("quotable-statements", "citationReadiness", passed,
             IF passed THEN 15 ELSE IF quotable >= 2 THEN 7 ELSE 0, 15)

checkHasSpecificClaims(p) ==
    LET count == p.claimMatches
        passed == count >= 2
    IN Check("specific-claims", "citationReadiness", passed,
             IF passed THEN 12 ELSE IF count >= 1 THEN 6 ELSE 0, 12)

\* ratio = clear / all (0 when there is no sentence); ratio >= 0.7, ratio >= 0.5
checkSentenceClarity(p) ==
    LET all == p.sentences[2]
        clear == p.sentences[1]
        passed == all > 0 /\ 10 * clear >= 7 * all
    IN Check("sentence-clarity", "citationReadiness", passed,
             IF passed THEN 8 ELSE IF all > 0 /\ 2 * clear >= all THEN 4 ELSE 0, 8)

checkHasDatesAndTimelines(p) ==
    LET count == p.dateMatches
        passed == count >= 2
    IN Check("dates-timelines", "citationReadiness", passed,
             IF passed THEN 8 ELSE IF count >= 1 THEN 4 ELSE 0, 8)

RichSchemaTypes == {"Article", "FAQPage", "HowTo", "Product", "Review", "Organization"}

checkHasSchemaMarkup(p) ==
    LET hasSchema == Len(p.jsonLd) > 0 \/ p.hasMicrodata
        hasRichSchema == \E i \in DOMAIN p.jsonLd : p.jsonLd[i] \in RichSchemaTypes
    IN Check("schema-markup", "technicalSeo", hasSchema,
             IF hasRichSchema THEN 20 ELSE IF hasSchema THEN 12 ELSE 0, 20)

checkMetaTitle(p) ==
    LET length == p.titleLength
        passed == length >= 30 /\ length <= 60
    IN Check("meta-title", "technicalSeo", passed,
             IF passed THEN 10 ELSE IF length > 0 THEN 5 ELSE 0, 10)

checkMetaDescription(p) ==
    LET length == p.descriptionLength
        passed == length >= 120 /\ length <= 160
    IN Check("meta-description", "technicalSeo", passed,
             IF passed THEN 10 ELSE IF length > 0 THEN 5 ELSE 0, 10)

checkOpenGraphTags(p) ==
    LET count == p.ogTags
        passed == count = 3
    IN Check("open-graph", "technicalSeo", passed,
             IF passed THEN 8 ELSE IF count >= 1 THEN 4 ELSE 0, 8)

checkCanonicalUrl(p) ==
    Check("canonical-url", "technicalSeo", p.hasCanonical, IF p.hasCanonical THEN 6 ELSE 0, 6)

checkPageSpeed(p) ==
    LET loadTime == p.loadTime
        passed == loadTime < 3000
        fast == loadTime < 1500
    IN Check("page-speed", "technicalSeo", passed,
             IF fast THEN 10 ELSE IF passed THEN 7 ELSE IF loadTime < 5000 THEN 3 ELSE 0, 10)

checkMobileViewport(p) ==
    Check("mobile-viewport", "technicalSeo", p.hasViewport, IF p.hasViewport THEN 6 ELSE 0, 6)

\* ratio = withAlt / all, and 1 when the page has no image; ratio >= 0.8, ratio >= 0.5
checkHasAltText(p) ==
    LET all == p.images[2]
        withAlt == p.images[1]
        passed == all = 0 \/ 5 * withAlt >= 4 * all
    IN Check("image-alt-text", "technicalSeo", passed,
             IF passed THEN 6 ELSE IF 2 * withAlt >= all THEN 3 ELSE 0, 6)

\* html.includes('@type'): every typed JSON-LD script contains it
htmlHasAtType(p) == p.atTypeInHtml \/ \E i \in DOMAIN p.jsonLd : p.jsonLd[i] # "untyped"

\* /author/i matches wherever html includes '"author"'
checkHasAuthorInfo(p) ==
    LET hasAuthor == p.authorPattern \/ p.authorKeyInHtml
        hasAuthorSchema == p.authorKeyInHtml /\ htmlHasAtType(p)
    IN Check("author-info", "credibilitySignals", hasAuthor,
             IF hasAuthorSchema THEN 15 ELSE IF hasAuthor THEN 10 ELSE 0, 15)

\* /published/i matches wherever html includes 'datePublished'; nothing in
\* datePatterns matches 'dateModified'
checkHasPublishDate(p) ==
    LET hasDate == p.datePattern \/ p.datePublishedInHtml
        hasDateSchema == p.datePublishedInHtml \/ p.dateModifiedInHtml
    IN Check("publish-date", "credibilitySignals", hasDate,
             IF hasDateSchema THEN 12 ELSE IF hasDate THEN 8 ELSE 0, 12)

checkHasAboutSection(p) ==
    Check("about-section", "credibilitySignals", p.hasAboutLink, IF p.hasAboutLink THEN 8 ELSE 0, 8)

checkHasSourceCitations(p) ==
    LET count == p.citationMatches
        passed == count >= 2
    IN Check("source-citations", "credibilitySignals", passed,
             IF passed THEN 12 ELSE IF count >= 1 THEN 6 ELSE 0, 12)

\* p.links = <<links to another host, a[href^="http"] elements>>; an href
\* that new URL() rejects is caught and counted as not external
checkHasExternalLinks(p) ==
    LET externalLinks == p.links[1]
        passed == externalLinks >= 2
    IN Check("external-links", "credibilitySignals", passed,
             IF passed THEN 8 ELSE IF externalLinks >= 1 THEN 4 ELSE 0, 8)

checkAnswersQuestionUpfront(p) ==
    Check("upfront-answer", "aiSpecificFactors", p.hasDirectAnswer,
          IF p.startsWithDefinition THEN 15 ELSE IF p.hasDirectAnswer THEN 10 ELSE 0, 15)

checkHasTableOfContents(p) ==
    Check("table-of-contents", "aiSpecificFactors", p.hasToc, IF p.hasToc THEN 10 ELSE 0, 10)

checkHasSummarySection(p) ==
    Check("summary-section", "aiSpecificFactors", p.hasSummary, IF p.hasSummary THEN 12 ELSE 0, 12)

checkNoPaywallDetected(p) ==
    Check("no-paywall", "aiSpecificFactors", ~p.hasPaywall, IF p.hasPaywall THEN 0 ELSE 10, 10)

checkContentAccessibility(p) ==
    LET sc == (IF p.hasAriaLabels THEN 3 ELSE 0) + (IF p.hasRoles THEN 3 ELSE 0)
              + (IF p.hasLangAttr THEN 4 ELSE 0)
    IN Check("accessibility", "aiSpecificFactors", sc >= 7, sc, 10)

(***************************************************************************)
(* runAllChecks of the full analyzer: the 31 checks, in the order pushed.  *)
(* No check function of this variant raises.                               *)
(***************************************************************************)
runAllChecks(p) ==
    << checkHeadingHierarchy(p), checkHasH1(p), checkSubheadings(p),
       checkParagraphStructure(p), checkHasFAQSection(p), checkHasDefinitions(p),
       checkContentLength(p), checkHasLists(p),
       checkHasStatistics(p), checkHasQuotableStatements(p), checkHasSpecificClaims(p),
       checkSentenceClarity(p), checkHasDatesAndTimelines(p),
       checkHasSchemaMarkup(p), checkMetaTitle(p), checkMetaDescription(p),
       checkOpenGraphTags(p), checkCanonicalUrl(p), checkPageSpeed(p),
       checkMobileViewport(p), checkHasAltText(p),
       checkHasAuthorInfo(p), checkHasPublishDate(p), checkHasAboutSection(p),
       checkHasSourceCitations(p), checkHasExternalLinks(p),
       checkAnswersQuestionUpfront(p), checkHasTableOfContents(p),
       checkHasSummarySection(p), checkNoPaywallDetected(p), checkContentAccessibility(p) >>

(***************************************************************************)
(* runAllChecks of the lightweight analyzer (src/lib/analyzer.ts:285-469): *)
(* 15 checks written inline.                                               *)
(***************************************************************************)
liteSingleH1(p) ==
    LET h1Count == Count(p.headings, 1)
    IN Check("single-h1", "contentStructure", h1Count = 1, IF h1Count = 1 THEN 10 ELSE 0, 10)

liteSubheadings(p) ==
    LET h2Count == Count(p.headings, 2)
    IN Check("subheadings", "contentStructure", h2Count >= 2,
             IF h2Count >= 2 THEN 10 ELSE IF h2Count >= 1 THEN 5 ELSE 0, 10)

\* textContent.split(/\s+/).length without a filter: the empty text gives ['']
liteContentLength(p) ==
    LET wordCount == IF p.wordCount = 0 THEN 1 ELSE p.wordCount
    IN Check("content-length", "contentStructure", wordCount >= 500,
             IF wordCount >= 500 THEN 10 ELSE IF wordCount >= 300 THEN 5 ELSE 0, 10)

liteFaqSection(p) ==
    Check("faq-section", "contentStructure", p.hasFAQ, IF p.hasFAQ THEN 15 ELSE 0, 15)

liteStatistics(p) ==
    Check("statistics", "citationReadiness", p.hasStats, IF p.hasStats THEN 15 ELSE 0, 15)

liteDefinitions(p) ==
    Check("definitions", "citationReadiness", p.hasDefinitions,
          IF p.hasDefinitions THEN 10 ELSE 0, 10)

liteSchemaMarkup(p) ==
    Check("schema-markup", "technicalSeo", p.hasSchema, IF p.hasSchema THEN 15 ELSE 0, 15)

liteMetaDescription(p) ==
    LET length == p.descriptionLength
        hasMetaDesc == length >= 50 /\ length <= 160
    IN Check("meta-description", "technicalSeo", hasMetaDesc,
             IF hasMetaDesc THEN 10 ELSE IF length > 0 THEN 5 ELSE 0, 10)

liteCanonicalUrl(p) ==
    Check("canonical-url", "technicalSeo", p.hasCanonical, IF p.hasCanonical THEN 5 ELSE 0, 5)

litePageSpeed(p) ==
    LET loadTime == p.loadTime
    IN Check("page-speed", "technicalSeo", loadTime < 3000,
             IF loadTime < 2000 THEN 10 ELSE IF loadTime < 3000 THEN 5 ELSE 0, 10)

liteAuthorInfo(p) ==
    Check("author-info", "credibilitySignals", p.hasAuthor, IF p.hasAuthor THEN 10 ELSE 0, 10)

litePublishDate(p) ==
    Check("publish-date", "credibilitySignals", p.hasDate, IF p.hasDate THEN 10 ELSE 0, 10)

\* The filter callback evaluates new URL(url), and no `url` is in scope in
\* runAllChecks: it raises a ReferenceError as soon as it is called, that is
\* when the page has an a[href^="http"] element.
liteExternalLinksRaises(p) == p.links[2] > 0

liteExternalLinks(p) ==
    LET externalLinks == p.links[1]
    IN Check("external-links", "credibilitySignals", externalLinks >= 2,
             IF externalLinks >= 2 THEN 10 ELSE IF externalLinks >= 1 THEN 5 ELSE 0, 10)

liteUpfrontAnswer(p) ==
    Check("upfront-answer", "aiSpecificFactors", p.answersUpfront,
          IF p.answersUpfront THEN 15 ELSE 0, 15)

liteTableOfContents(p) ==
    Check("table-of-contents", "aiSpecificFactors", p.hasTOC, IF p.hasTOC THEN 5 ELSE 0, 5)

runAllChecksLite(p) ==
    << liteSingleH1(p), liteSubheadings(p), liteContentLength(p), liteFaqSection(p),
       liteStatistics(p), liteDefinitions(p),
       liteSchemaMarkup(p), liteMetaDescription(p), liteCanonicalUrl(p), litePageSpeed(p),
       liteAuthorInfo(p), litePublishDate(p), liteExternalLinks(p),
       liteUpfrontAnswer(p), liteTableOfContents(p) >>

(***************************************************************************)
(* Scoring (src/lib/analyzer.ts:2182-2214, and 475-512 in the lightweight  *)
(* analyzer, which computes the same values).                              *)
(***************************************************************************)
CategoryKeys ==
    <<"contentStructure", "citationReadiness", "technicalSeo", "credibilitySignals",
      "aiSpecificFactors">>

Categories == {CategoryKeys[i] : i \in DOMAIN CategoryKeys}

statusOf(percentage) ==
    IF percentage >= 70 THEN "good" ELSE IF percentage >= 40 THEN "warning" ELSE "poor"

\* the first loop: add each check to its category, skipping unknown categories
RECURSIVE accumulate(_, _)
accumulate(cs, acc) ==
    IF cs = <<>> THEN acc
    ELSE LET check == Head(cs)
             cat == check.category
         IN accumulate(Tail(cs),
                IF cat \in DOMAIN acc
                THEN [acc EXCEPT ![cat] = [score |-> @.score + check.score,
                                           maxScore |-> @.maxScore + check.maxScore]]
                ELSE acc)

\* percentageOf with Math.floor in place of Math.round
percentageOf_floor(cat) ==
    IF cat.maxScore > 0 THEN (100 * cat.score) \div cat.maxScore ELSE 0

percentageOf(cat) ==
    IF cat.maxScore > 0 THEN MathRound(100 * cat.score, cat.maxScore) ELSE 0

\* calculateCategoryScores adding the first check of the list twice
calculateCategoryScores_headTwice(cs) ==
    LET sums == accumulate(IF cs = <<>> THEN cs ELSE <<Head(cs)>> \o cs,
                           [k \in Categories |-> [score |-> 0, maxScore |-> 0]])
    IN [k \in Categories |->
          [score |-> sums[k].score, maxScore |-> sums[k].maxScore,
           percentage |-> percentageOf(sums[k]),
           status |-> statusOf(percentageOf(sums[k]))]]

calculateCategoryScores(cs) ==
    LET sums == accumulate(cs, [k \in Categories |-> [score |-> 0, maxScore |-> 0]])
    IN [k \in Categories |->
          [score |-> sums[k].score, maxScore |-> sums[k].maxScore,
           percentage |-> percentageOf(sums[k]),
           status |-> statusOf(percentageOf(sums[k]))]]

\* scoreToGrade with strict comparisons
scoreToGrade_strict(s) ==
    IF s > 90 THEN "A"
    ELSE IF s > 80 THEN "B"
    ELSE IF s > 70 THEN "C"
    ELSE IF s > 60 THEN "D"
    ELSE "F"

scoreToGrade(s) ==
    IF s >= 90 THEN "A"
    ELSE IF s >= 80 THEN "B"
    ELSE IF s >= 70 THEN "C"
    ELSE IF s >= 60 THEN "D"
    ELSE "F"

\* Object.values(categories).reduce(...) over the five categories
RECURSIVE sumOver(_, _, _)
sumOver(cats, field, i) ==
    IF i > Len(CategoryKeys) THEN 0
    ELSE cats[CategoryKeys[i]][field] + sumOver(cats, field, i + 1)

totalScoreOf(cats) == sumOver(cats, "score", 1)
maxScoreOf(cats) == sumOver(cats, "maxScore", 1)

\* Math.round((totalScore / maxScore) * 100); 0/0 is NaN and stays NaN
NaN == "NaN"
\* overallScore as the mean of the five category percentages
overallScore_meanOfPercentages(cats) ==
    MathRound(sumOver(cats, "percentage", 1), Len(CategoryKeys))

overallScore(cats) ==
    IF maxScoreOf(cats) = 0 THEN NaN
    ELSE MathRound(100 * totalScoreOf(cats), maxScoreOf(cats))

(***************************************************************************)
(* Recommendations (src/lib/analyzer.ts:2216-2410, and 518-592).  Of a     *)
(* template only the priority is kept; a Recommendation is [id, priority]. *)
(***************************************************************************)
\* the recs table of checkToRecommendation: check id -> priority
checkToRecommendationTable ==
    [x \in {"schema-markup", "faq-section", "statistics", "quotable-statements",
            "author-info", "meta-description", "upfront-answer", "summary-section",
            "publish-date", "heading-hierarchy", "single-h1", "content-length",
            "page-speed"} |->
        CASE x = "schema-markup" -> "critical"
          [] x \in {"faq-section", "statistics", "quotable-statements", "author-info",
                    "upfront-answer"} -> "high"
          [] x = "page-speed" -> "low"
          [] OTHER -> "medium"]

\* the recs table of getRecommendation (lightweight analyzer)
getRecommendationTable ==
    [x \in {"schema-markup", "faq-section", "statistics", "author-info", "upfront-answer",
            "meta-description"} |->
        CASE x = "schema-markup" -> "critical"
          [] x = "meta-description" -> "medium"
          [] OTHER -> "high"]

recsTable(v) == IF v = "lite" THEN getRecommendationTable ELSE checkToRecommendationTable

\* checkToRecommendation falling back to a generic template for unknown ids
checkToRecommendation_generic(v, check) ==
    <<[id |-> check.id,
       priority |-> IF check.id \in DOMAIN recsTable(v) THEN recsTable(v)[check.id] ELSE "low"]>>

\* null (Absent) when the id has no template
checkToRecommendation(v, check) ==
    IF check.id \in DOMAIN recsTable(v)
    THEN <<[id |-> check.id, priority |-> recsTable(v)[check.id]]>>
    ELSE Absent

priorityOrder == [critical |-> 0, high |-> 1, medium |-> 2, low |-> 3]

\* the loop of generateRecommendations: failed checks that have a template, in order
RECURSIVE collect(_, _)
collect(v, cs) ==
    IF cs = <<>> THEN <<>>
    ELSE LET check == Head(cs)
             rec == checkToRecommendation(v, check)
         IN IF check.passed \/ rec = Absent
            THEN collect(v, Tail(cs))
            ELSE rec \o collect(v, Tail(cs))

\* Array.prototype.sort with the comparator order[a] - order[b]: a stable sort
\* (ECMAScript 2019), written as the insertion of each element behind the
\* elements that do not compare greater
\* insert placing an element in front of the elements it compares equal to
insert_beforeEqual(sorted, r) ==
    LET k == Cardinality({i \in DOMAIN sorted :
                 priorityOrder[sorted[i].priority] - priorityOrder[r.priority] < 0})
    IN SubSeq(sorted, 1, k) \o <<r>> \o SubSeq(sorted, k + 1, Len(sorted))

insert(sorted, r) ==
    LET k == Cardinality({i \in DOMAIN sorted :
                 priorityOrder[sorted[i].priority] - priorityOrder[r.priority] <= 0})
    IN SubSeq(sorted, 1, k) \o <<r>> \o SubSeq(sorted, k + 1, Len(sorted))

RECURSIVE sortByPriority(_, _)
sortByPriority(rs, sorted) ==
    IF rs = <<>> THEN sorted ELSE sortByPriority(Tail(rs), insert(sorted, Head(rs)))

generateRecommendations(v, cs) == sortByPriority(collect(v, cs), <<>>)

\* .slice(0, 6): one entry too many
slice5_six(rs) == SubSeq(rs, 1, IF Len(rs) < 6 THEN Len(rs) ELSE 6)

\* .slice(0, 5)
slice5(rs) == SubSeq(rs, 1, IF Len(rs) < 5 THEN Len(rs) ELSE 5)

criticalOrHigh(r) == r.priority = "critical" \/ r.priority = "high"

\* full: .filter(critical or high).slice(0, 5); lightweight: .slice(0, 5)
topOf(v, rs) ==
    IF v = "lite" THEN slice5(rs) ELSE slice5(SelectSeq(rs, criticalOrHigh))

(***************************************************************************)
(* analyzeWithClaude (src/lib/claude-analyzer.ts:80-231).  The response of *)
(* the API is an input: the call fails (the fetch rejects, the status is   *)
(* not 2xx, the body has no text block, the text is not JSON) or the text  *)
(* parses to a JSON value.  Every failure is caught inside the function,   *)
(* which then returns createFallbackAnalysis(...).                         *)
(***************************************************************************)
FallbackScore == 50

\* aiAnalysis values: [kind |-> "undefined"] (never assigned), [kind |-> "null"],
\* or an analysis object, of which the score is kept and whether it is the fallback
createFallbackAnalysis ==
    [kind |-> "analysis", aiReadinessScore |-> <<FallbackScore>>, fallback |-> TRUE]

ClaudeFailures == {"networkError", "apiError", "noText", "badJson"}

AiScores ==
    {AiScoreStep * k : k \in -1..AiScoreUnits} \cup {-1, 1, 65, 99, 100, 101}

\* what JSON.parse can give: null, or an object with or without a numeric score
ParsedValues ==
    {[kind |-> "null"]}
    \cup {[kind |-> "analysis", aiReadinessScore |-> n, fallback |-> FALSE] :
             n \in {<<x>> : x \in AiScores} \cup {Absent}}

ClaudeOutcomes ==
    {[kind |-> k] : k \in ClaudeFailures} \cup {[kind |-> "parsed", value |-> v] : v \in ParsedValues}

analyzeWithClaude(outcome) ==
    IF outcome.kind \in ClaudeFailures THEN createFallbackAnalysis ELSE outcome.value

\* the condition guarding the blend: a truthy score in the full analyzer, a
\* truthy score that is > 0 in the lightweight one
blends(v, ai) ==
    /\ ai.aiReadinessScore # Absent
    /\ IF v = "lite" THEN ai.aiReadinessScore[1] > 0 ELSE ai.aiReadinessScore[1] # 0

\* Math.round(ai * 0.6 + score * 0.4)
blend(ai, s) == MathRound(6 * ai + 4 * s, 10)

\* the body of the try block after the await; reading a property of null
\* raises a TypeError, which the catch swallows
scoreAfterClaude(v, ai, s) ==
    IF ai.kind = "null" THEN s
    ELSE IF blends(v, ai) THEN blend(ai.aiReadinessScore[1], s)
    ELSE s

(***************************************************************************)
(* The page title (src/lib/analyzer.ts:2170-2174, and 158 in the           *)
(* lightweight analyzer).  A string is a sequence of characters; a document *)
(* has, or has not, an og:title meta content, a <title> text and a first    *)
(* <h1> text.                                                              *)
(***************************************************************************)
RECURSIVE trimStart(_)
trimStart(s) == IF s # <<>> /\ Head(s) = " " THEN trimStart(Tail(s)) ELSE s

RECURSIVE trimEnd(_)
trimEnd(s) == IF s # <<>> /\ s[Len(s)] = " " THEN trimEnd(SubSeq(s, 1, Len(s) - 1)) ELSE s

\* String.prototype.trim
trim(s) == trimEnd(trimStart(s))

\* x || ..., for x undefined, null or a string: the empty string is falsy
truthy(x) == x # Absent /\ x[1] # <<>>

\* cheerio's .text() of a selection: '' when nothing is selected
text(x) == IF x = Absent THEN <<>> ELSE x[1]

\* (ogTitle || titleTag || '').trim()
extractTitle(d) ==
    trim(IF truthy(d.og) THEN d.og[1] ELSE IF truthy(d.title) THEN d.title[1] ELSE <<>>)

\* $('title').text().trim() || $('h1').first().text().trim() || ''
liteTitle(d) ==
    LET t == trim(text(d.title)) IN IF t # <<>> THEN t ELSE trim(text(d.h1))

titleOf(v, d) == IF v = "lite" THEN liteTitle(d) ELSE extractTitle(d)

(***************************************************************************)
(* calculateReadability (src/lib/analyzer.ts:969-996, and 247-270 in the   *)
(* lightweight analyzer) and the metadata of the result.  A page carries   *)
(* the number of sentences text.split(/[.!?]+/) finds (readabilitySentences)*)
(* and Math.round of its Flesch score (flesch), which means nothing when   *)
(* the page has no word or no sentence.  The readability score is kept as  *)
(* a sequence of one number, <<>> standing for NaN.                        *)
(***************************************************************************)
clamp(x) == IF x < 0 THEN 0 ELSE IF x > 100 THEN 100 ELSE x

readabilityGradeOf(v, sc) ==
    IF v = "lite"
    THEN IF sc >= 80 THEN "Easy"
         ELSE IF sc >= 60 THEN "Standard"
         ELSE IF sc >= 40 THEN "Hard"
         ELSE "Very Hard"
    ELSE IF sc >= 90 THEN "5th Grade (Very Easy)"
         ELSE IF sc >= 80 THEN "6th Grade (Easy)"
         ELSE IF sc >= 70 THEN "7th Grade (Fairly Easy)"
         ELSE IF sc >= 60 THEN "8-9th Grade (Standard)"
         ELSE IF sc >= 50 THEN "10-12th Grade (Fairly Hard)"
         ELSE IF sc >= 30 THEN "College (Hard)"
         ELSE "Graduate (Very Hard)"

\* the score returned for a text without a sentence or without a word
readabilitySentinel(v) == IF v = "lite" THEN 50 ELSE 0

\* calculateReadability without its early return: 0 / 0 is NaN, every
\* comparison with NaN is false
calculateReadability_noGuard(v, p) ==
    IF p.readabilitySentences = 0 \/ p.wordCount = 0
    THEN [score |-> <<>>, grade |-> IF v = "lite" THEN "Very Hard" ELSE "Graduate (Very Hard)"]
    ELSE [score |-> <<clamp(p.flesch)>>, grade |-> readabilityGradeOf(v, clamp(p.flesch))]

calculateReadability(v, p) ==
    IF p.readabilitySentences = 0 \/ p.wordCount = 0
    THEN [score |-> <<readabilitySentinel(v)>>, grade |-> "N/A"]
    ELSE [score |-> <<clamp(p.flesch)>>, grade |-> readabilityGradeOf(v, clamp(p.flesch))]

\* metadata: { title, description, wordCount, loadTime, domain,
\* readabilityScore, readabilityGrade }; the three strings are left out
metadataOf(v, p) ==
    [wordCount |-> p.wordCount,
     loadTime |-> p.loadTime,
     readabilityScore |-> calculateReadability(v, p).score,
     readabilityGrade |-> calculateReadability(v, p).grade]

NoResultMetadata ==
    [wordCount |-> 0, loadTime |-> 0, readabilityScore |-> <<>>, readabilityGrade |-> "none"]

(***************************************************************************)
(* The pages tried: a base page changed in at most MaxEdits measurements.  *)
(* Each measurement ranges over values on both sides of every threshold    *)
(* the checks compare it with.                                             *)
(***************************************************************************)
LoadTimes == {0, 1499, 1500, 1999, 2000, 2999, 3000, 4999, 5000}
DescriptionLengths == {0, 49, 50, 119, 120, 160, 161}
HeadingLists ==
    {<<>>, <<1>>, <<1, 2>>, <<1, 3>>, <<1, 1, 2>>, <<1, 2, 3>>, <<1, 3, 3>>, <<1, 2, 2, 3>>}
LinkCounts == {<<0, 0>>, <<0, 1>>, <<1, 1>>, <<1, 3>>, <<2, 2>>}

FullDomain ==
    [ headings |-> HeadingLists,
      paragraphs |-> {<<0, 0>>, <<0, 4>>, <<1, 4>>, <<3, 10>>, <<2, 4>>, <<4, 4>>},
      hasFAQHeading |-> BOOLEAN,
      hasQuestionAnswerPattern |-> BOOLEAN,
      jsonLd |-> {<<>>, <<"untyped">>, <<"WebPage">>, <<"Article">>, <<"FAQPage">>,
                  <<"Article", "FAQPage">>},
      hasMicrodata |-> BOOLEAN,
      definitionMatches |-> 0..2,
      wordCount |-> {0, 399, 400, 799, 800, 1499, 1500},
      readabilitySentences |-> {0, 1, 40},
      flesch |-> {0 - 12, 29, 30, 65, 90, 121},
      uls |-> 0..2,
      ols |-> 0..1,
      statMatches |-> 0..3,
      quotableSentences |-> {0, 1, 2, 4, 5},
      claimMatches |-> 0..2,
      sentences |-> {<<0, 0>>, <<0, 2>>, <<1, 2>>, <<2, 3>>, <<7, 10>>, <<3, 3>>},
      dateMatches |-> 0..2,
      titleLength |-> {0, 29, 30, 60, 61},
      descriptionLength |-> DescriptionLengths,
      ogTags |-> 0..3,
      hasCanonical |-> BOOLEAN,
      loadTime |-> LoadTimes,
      hasViewport |-> BOOLEAN,
      images |-> {<<0, 0>>, <<0, 2>>, <<1, 2>>, <<3, 5>>, <<4, 5>>, <<2, 2>>},
      authorPattern |-> BOOLEAN,
      authorKeyInHtml |-> BOOLEAN,
      atTypeInHtml |-> BOOLEAN,
      datePattern |-> BOOLEAN,
      datePublishedInHtml |-> BOOLEAN,
      dateModifiedInHtml |-> BOOLEAN,
      hasAboutLink |-> BOOLEAN,
      citationMatches |-> 0..2,
      links |-> LinkCounts,
      hasDirectAnswer |-> BOOLEAN,
      startsWithDefinition |-> BOOLEAN,
      hasToc |-> BOOLEAN,
      hasSummary |-> BOOLEAN,
      hasPaywall |-> BOOLEAN,
      hasAriaLabels |-> BOOLEAN,
      hasRoles |-> BOOLEAN,
      hasLangAttr |-> BOOLEAN ]

\* an empty document that loaded slowly
FullBlank ==
    [ headings |-> <<>>, paragraphs |-> <<0, 0>>, hasFAQHeading |-> FALSE,
      hasQuestionAnswerPattern |-> FALSE, jsonLd |-> <<>>, hasMicrodata |-> FALSE,
      definitionMatches |-> 0, wordCount |-> 0, readabilitySentences |-> 0, flesch |-> 0,
      uls |-> 0, ols |-> 0, statMatches |-> 0,
      quotableSentences |-> 0, claimMatches |-> 0, sentences |-> <<0, 0>>,
      dateMatches |-> 0, titleLength |-> 0, descriptionLength |-> 0, ogTags |-> 0,
      hasCanonical |-> FALSE, loadTime |-> 5000, hasViewport |-> FALSE,
      images |-> <<0, 0>>, authorPattern |-> FALSE, authorKeyInHtml |-> FALSE,
      atTypeInHtml |-> FALSE, datePattern |-> FALSE, datePublishedInHtml |-> FALSE,
      dateModifiedInHtml |-> FALSE, hasAboutLink |-> FALSE, citationMatches |-> 0,
      links |-> <<0, 0>>, hasDirectAnswer |-> FALSE, startsWithDefinition |-> FALSE,
      hasToc |-> FALSE, hasSummary |-> FALSE, hasPaywall |-> FALSE,
      hasAriaLabels |-> FALSE, hasRoles |-> FALSE, hasLangAttr |-> FALSE ]

\* an ordinary article: some structure, partial marks on most checks
FullPlain ==
    [ headings |-> <<1, 2>>, paragraphs |-> <<3, 10>>, hasFAQHeading |-> FALSE,
      hasQuestionAnswerPattern |-> TRUE, jsonLd |-> <<"WebPage">>, hasMicrodata |-> FALSE,
      definitionMatches |-> 1, wordCount |-> 799, readabilitySentences |-> 40, flesch |-> 65,
      uls |-> 1, ols |-> 0, statMatches |-> 1,
      quotableSentences |-> 2, claimMatches |-> 1, sentences |-> <<1, 2>>,
      dateMatches |-> 1, titleLength |-> 29, descriptionLength |-> 119, ogTags |-> 1,
      hasCanonical |-> TRUE, loadTime |-> 2999, hasViewport |-> TRUE,
      images |-> <<3, 5>>, authorPattern |-> TRUE, authorKeyInHtml |-> FALSE,
      atTypeInHtml |-> FALSE, datePattern |-> TRUE, datePublishedInHtml |-> FALSE,
      dateModifiedInHtml |-> FALSE, hasAboutLink |-> FALSE, citationMatches |-> 1,
      links |-> <<1, 1>>, hasDirectAnswer |-> TRUE, startsWithDefinition |-> FALSE,
      hasToc |-> FALSE, hasSummary |-> TRUE, hasPaywall |-> FALSE,
      hasAriaLabels |-> FALSE, hasRoles |-> FALSE, hasLangAttr |-> TRUE ]

\* a page that earns full marks on every check
FullRich ==
    [ headings |-> <<1, 2, 2, 3>>, paragraphs |-> <<4, 4>>, hasFAQHeading |-> TRUE,
      hasQuestionAnswerPattern |-> TRUE, jsonLd |-> <<"FAQPage">>, hasMicrodata |-> TRUE,
      definitionMatches |-> 2, wordCount |-> 1500, readabilitySentences |-> 40, flesch |-> 90,
      uls |-> 2, ols |-> 1, statMatches |-> 3,
      quotableSentences |-> 5, claimMatches |-> 2, sentences |-> <<3, 3>>,
      dateMatches |-> 2, titleLength |-> 60, descriptionLength |-> 160, ogTags |-> 3,
      hasCanonical |-> TRUE, loadTime |-> 0, hasViewport |-> TRUE,
      images |-> <<2, 2>>, authorPattern |-> TRUE, authorKeyInHtml |-> TRUE,
      atTypeInHtml |-> TRUE, datePattern |-> TRUE, datePublishedInHtml |-> TRUE,
      dateModifiedInHtml |-> TRUE, hasAboutLink |-> TRUE, citationMatches |-> 2,
      links |-> <<2, 2>>, hasDirectAnswer |-> TRUE, startsWithDefinition |-> TRUE,
      hasToc |-> TRUE, hasSummary |-> TRUE, hasPaywall |-> FALSE,
      hasAriaLabels |-> TRUE, hasRoles |-> TRUE, hasLangAttr |-> TRUE ]

LiteDomain ==
    [ headings |-> HeadingLists,
      wordCount |-> {0, 299, 300, 499, 500},
      readabilitySentences |-> {0, 1, 40},
      flesch |-> {0 - 12, 39, 40, 65, 80, 121},
      hasFAQ |-> BOOLEAN,
      hasStats |-> BOOLEAN,
      hasDefinitions |-> BOOLEAN,
      hasSchema |-> BOOLEAN,
      descriptionLength |-> DescriptionLengths,
      hasCanonical |-> BOOLEAN,
      loadTime |-> LoadTimes,
      hasAuthor |-> BOOLEAN,
      hasDate |-> BOOLEAN,
      links |-> LinkCounts,
      answersUpfront |-> BOOLEAN,
      hasTOC |-> BOOLEAN ]

LiteBlank ==
    [ headings |-> <<>>, wordCount |-> 0, readabilitySentences |-> 0, flesch |-> 0, hasFAQ |-> FALSE, hasStats |-> FALSE,
      hasDefinitions |-> FALSE, hasSchema |-> FALSE, descriptionLength |-> 0,
      hasCanonical |-> FALSE, loadTime |-> 5000, hasAuthor |-> FALSE, hasDate |-> FALSE,
      links |-> <<0, 0>>, answersUpfront |-> FALSE, hasTOC |-> FALSE ]

LitePlain ==
    [ headings |-> <<1, 2>>, wordCount |-> 300, readabilitySentences |-> 40, flesch |-> 65, hasFAQ |-> FALSE, hasStats |-> TRUE,
      hasDefinitions |-> FALSE, hasSchema |-> TRUE, descriptionLength |-> 49,
      hasCanonical |-> FALSE, loadTime |-> 2999, hasAuthor |-> TRUE, hasDate |-> FALSE,
      links |-> <<0, 0>>, answersUpfront |-> FALSE, hasTOC |-> TRUE ]

\* full marks on every check that can be reached without an http link
LiteRich ==
    [ headings |-> <<1, 2, 2, 3>>, wordCount |-> 500, readabilitySentences |-> 40, flesch |-> 80, hasFAQ |-> TRUE, hasStats |-> TRUE,
      hasDefinitions |-> TRUE, hasSchema |-> TRUE, descriptionLength |-> 160,
      hasCanonical |-> TRUE, loadTime |-> 0, hasAuthor |-> TRUE, hasDate |-> TRUE,
      links |-> <<0, 0>>, answersUpfront |-> TRUE, hasTOC |-> TRUE ]

OneEdit(S, dom) ==
    UNION {UNION {{[q EXCEPT ![f] = x] : x \in dom[f]} : f \in DOMAIN dom} : q \in S}

RECURSIVE Edited(_, _, _)
Edited(S, dom, n) == IF n = 0 THEN S ELSE Edited(S \cup OneEdit(S, dom), dom, n - 1)

Pages(v) ==
    IF v = "lite" THEN Edited({LiteBlank, LitePlain, LiteRich}, LiteDomain, MaxEdits)
    ELSE Edited({FullBlank, FullPlain, FullRich}, FullDomain, MaxEdits)

(***************************************************************************)
(* The state of the endpoints: POST /api/analyze                           *)
(* (src/app/api/analyze/route.ts) and POST /api/demo-analyze               *)
(* (src/app/api/demo-analyze/route.ts).  Each request runs in a slot; a    *)
(* handler is suspended at its awaits, where the other requests run.       *)
(***************************************************************************)
FREE_SCANS_PER_MONTH == 3
DEMO_LIMIT == 10
RATE_WINDOW == 60 * 60 * 1000

NumSlots == 2   \* requests handled at the same time
MaxHours == 1   \* the clock runs over the first MaxHours rate windows, and one instant more
MaxMonth == 1   \* the calendar passes through months 0 .. MaxMonth

Slots == 1..NumSlots
Users == {"freeUser", "proUser"}
IPs == {"203.0.113.7", "anonymous"}
Endpoints == {"analyze", "demo"}

\* the instants at which something happens: each window boundary and the
\* millisecond after it
TimePoints == {k * RATE_WINDOW + d : k \in 0..MaxHours, d \in {0, 1}}

\* publicMetadata of a user that has none of the fields: {}
NoMetadata ==
    [isPro |-> FALSE, scansThisMonth |-> Absent, scansResetDate |-> Absent,
     totalScans |-> Absent]

NoMessage == [text |-> "none", has |-> {}]

\* a slot in which no request runs; the fields are the handler's local
\* variables, the response, and what the request did so far
IdleRequest ==
    [ endpoint |-> "none",
      caller |-> "none",           \* userId, or ip
      pc |-> "idle",
      metadata |-> NoMetadata,     \* const metadata (analyze:22), while the reset needs it
      isPro |-> FALSE,             \* const isPro (analyze:23)
      resetMonth |-> 0,            \* const now (analyze:27), its month
      currentMetadata |-> NoMetadata,  \* const currentMetadata (analyze:80)
      body |-> [json |-> "none", url |-> Absent],  \* what request.json() gives, or would
      invoked |-> FALSE,           \* analyzeUrl was called
      storedAtCall |-> NoMetadata, \* the caller's stored metadata when it was called
      fetched |-> "none",          \* how the page fetch settled
      thrown |-> NoMessage,        \* the error analyzeUrl threw
      ranChecks |-> FALSE,         \* runAllChecks was called
      calledClaude |-> FALSE,      \* analyzeWithClaude was called
      score |-> 0,                 \* let score, inside analyzeUrl
      result |-> Absent,           \* the AnalysisResult in the response: <<[score, grade]>>
      status |-> 0,                \* the response's status, 0 while there is none
      errorText |-> "none",        \* the response's { error }
      incremented |-> FALSE ]      \* the request wrote its scan to the metadata

ApiIdle ==
    /\ requests = [r \in Slots |-> IdleRequest]
    /\ users = [u \in Users |-> [NoMetadata EXCEPT !.isPro = (u = "proUser")]]
    /\ rateLimitMap = [ip \in IPs |-> Absent]
    /\ now = 0
    /\ month = 0
    /\ arrivalsLeft = [e \in Endpoints |-> 0]
    /\ granted = [u \in Users |-> [m \in 0..MaxMonth |-> 0]]
    /\ admitted = [ip \in IPs |-> [start |-> 0, n |-> 0, windows |-> 0]]

(***************************************************************************)
(* analyzeUrl (src/lib/analyzer.ts:841-963, and 122-241).  One run:        *)
(*   start -> fetching -> fetched -> scored -> (claude ->) returned        *)
(* or rejected, when the function throws.                                  *)
(***************************************************************************)
emptyCategories ==
    [k \in Categories |-> [score |-> 0, maxScore |-> 0, percentage |-> 0, status |-> "good"]]

NoCall == [fn |-> "none"]

Init ==
    /\ variant \in {"lite", "full"}
    /\ page \in Pages(variant)
    /\ includeAI \in BOOLEAN
    /\ apiKey \in BOOLEAN
    /\ pc = "start"
    /\ resultMetadata = NoResultMetadata
    /\ attempts = [fetch |-> 0, claude |-> 0]
    /\ checks = <<>>
    /\ categories = emptyCategories
    /\ score = 0
    /\ allRecommendations = <<>>
    /\ topRecommendations = <<>>
    /\ aiAnalysis = [kind |-> "undefined"]
    /\ claudeResponse = [kind |-> "none"]
    /\ grade = "none"
    /\ error = "none"
    /\ call = NoCall
    /\ ApiIdle

\* await fetch(url, ...)
StartFetch ==
    /\ pc = "start"
    /\ pc' = "fetching"
    /\ attempts' = [attempts EXCEPT !.fetch = @ + 1]
    /\ UNCHANGED <<variant, page, includeAI, apiKey, resultMetadata, checks, categories, score,
                   allRecommendations, topRecommendations, aiAnalysis, claudeResponse,
                   grade, error, call, apiVars>>

\* a fetch that failed is tried a second time
FetchSettles_retry ==
    /\ pc = "fetching"
    /\ \E outcome \in {"ok", "notOk", "rejects"} :
         IF outcome = "ok"
         THEN pc' = "fetched" /\ error' = error
         ELSE IF attempts.fetch < 2
         THEN pc' = "start" /\ error' = error
         ELSE pc' = "rejected"
              /\ error' = (IF outcome = "notOk" THEN "Failed to fetch" ELSE "fetch rejected")
    /\ UNCHANGED <<variant, page, includeAI, apiKey, resultMetadata, attempts, checks,
                   categories, score, allRecommendations, topRecommendations, aiAnalysis,
                   claudeResponse, grade, call, apiVars>>

\* the fetch settles on what the network does: it rejects (network error), or
\* resolves with a response that is ok or not; if (!response.ok) throw
FetchSettles ==
    /\ pc = "fetching"
    /\ \E outcome \in {"ok", "notOk", "rejects"} :
         IF outcome = "ok"
         THEN pc' = "fetched" /\ error' = error
         ELSE pc' = "rejected"
              /\ error' = (IF outcome = "notOk" THEN "Failed to fetch" ELSE "fetch rejected")
    /\ UNCHANGED <<variant, page, includeAI, apiKey, resultMetadata, attempts, checks, categories, score,
                   allRecommendations, topRecommendations, aiAnalysis, claudeResponse,
                   grade, call, apiVars>>

\* signal: AbortSignal.timeout(30000) (20000 in the lightweight analyzer): the
\* timer fires while the fetch is pending and the fetch rejects
FetchTimesOut ==
    /\ pc = "fetching"
    /\ pc' = "rejected"
    /\ error' = "TimeoutError"
    /\ UNCHANGED <<variant, page, includeAI, apiKey, resultMetadata, attempts, checks, categories, score,
                   allRecommendations, topRecommendations, aiAnalysis, claudeResponse,
                   grade, call, apiVars>>

\* parsing, runAllChecks, calculateCategoryScores, the overall score and the
\* recommendations: straight-line code between two awaits.  Nothing catches
\* what runAllChecks raises.
RuleBasedAnalysis ==
    /\ pc = "fetched"
    /\ IF variant = "lite" /\ liteExternalLinksRaises(page)
       THEN /\ pc' = "rejected"
            /\ error' = "ReferenceError"
            /\ UNCHANGED <<resultMetadata, checks, categories, score, allRecommendations,
                           topRecommendations>>
       ELSE LET cs == IF variant = "lite" THEN runAllChecksLite(page) ELSE runAllChecks(page)
                cats == calculateCategoryScores(cs)
                recs == generateRecommendations(variant, cs)
            IN /\ resultMetadata' = metadataOf(variant, page)
               /\ checks' = cs
               /\ categories' = cats
               /\ score' = overallScore(cats)
               /\ allRecommendations' = recs
               /\ topRecommendations' = topOf(variant, recs)
               /\ pc' = "scored"
               /\ error' = error
    /\ UNCHANGED <<variant, page, includeAI, apiKey, attempts, aiAnalysis, claudeResponse,
                   grade, call, apiVars>>

\* if (includeAI && process.env.ANTHROPIC_API_KEY) is false: grade and return
ReturnWithoutClaude ==
    /\ pc = "scored"
    /\ ~(includeAI /\ apiKey)
    /\ grade' = scoreToGrade(score)
    /\ pc' = "returned"
    /\ UNCHANGED <<variant, page, includeAI, apiKey, resultMetadata, attempts, checks, categories, score,
                   allRecommendations, topRecommendations, aiAnalysis, claudeResponse,
                   error, call, apiVars>>

\* aiAnalysis = await analyzeWithClaude(...)
CallClaude ==
    /\ pc = "scored"
    /\ includeAI /\ apiKey
    /\ pc' = "claude"
    /\ attempts' = [attempts EXCEPT !.claude = @ + 1]
    /\ UNCHANGED <<variant, page, includeAI, apiKey, resultMetadata, checks, categories, score,
                   allRecommendations, topRecommendations, aiAnalysis, claudeResponse,
                   grade, error, call, apiVars>>

\* analyzeWithClaude resolves (it never rejects); then the blend, the grade
\* and the return
ClaudeSettles ==
    /\ pc = "claude"
    /\ \E outcome \in ClaudeOutcomes :
         LET ai == analyzeWithClaude(outcome)
             final == scoreAfterClaude(variant, ai, score)
         IN /\ claudeResponse' = outcome
            /\ aiAnalysis' = ai
            /\ score' = final
            /\ grade' = scoreToGrade(final)
    /\ pc' = "returned"
    /\ UNCHANGED <<variant, page, includeAI, apiKey, resultMetadata, attempts, checks, categories,
                   allRecommendations, topRecommendations, error, call, apiVars>>

Next ==
    \/ StartFetch
    \/ FetchSettles
    \/ FetchTimesOut
    \/ RuleBasedAnalysis
    \/ ReturnWithoutClaude
    \/ CallClaude
    \/ ClaudeSettles

Spec == Init /\ [][Next]_vars

(***************************************************************************)
(* analyzeUrl under the scheduling the runtime guarantees: a continuation  *)
(* that can run does run, and an armed timer fires unless the awaited call *)
(* settled first.  Nothing obliges the network or the narrative API to     *)
(* answer: FetchSettles and ClaudeSettles carry no fairness.  The only     *)
(* timer is the page fetch's; the fetch inside analyzeWithClaude           *)
(* (src/lib/claude-analyzer.ts:181-193) is given no signal.                *)
(*                                                                         *)
(* RuleBasedAnalysis is enabled exactly when pc = "fetched" and every step *)
(* that leaves pc = "fetched" is a RuleBasedAnalysis step, so its weak     *)
(* fairness WF_vars(RuleBasedAnalysis) is the formula []<>(pc # "fetched"),*)
(* written in that form below.                                             *)
(***************************************************************************)
BasePages(v) ==
    IF v = "lite" THEN {LiteBlank, LitePlain, LiteRich} ELSE {FullBlank, FullPlain, FullRich}

InitLive ==
    /\ Init
    /\ page \in BasePages(variant)

SpecLive ==
    /\ InitLive /\ [][Next]_vars
    /\ WF_vars(StartFetch)
    /\ WF_vars(FetchTimesOut)
    /\ []<>(pc # "fetched")
    /\ WF_vars(ReturnWithoutClaude)
    /\ WF_vars(CallClaude)

(***************************************************************************)
(* The pure helpers called directly, on inputs that need not come from a   *)
(* page: any integer score, any short list of checks.  A behaviour makes    *)
(* one call.                                                               *)
(***************************************************************************)
MaxCategoryChecks == 3  \* longest check list handed to calculateCategoryScores

ScoreSamples == {<<0, 8>>, <<3, 8>>, <<7, 15>>, <<10, 10>>}

\* checks of the five categories and of a category the aggregator does not know
CategorySamples ==
    {Check("sample", c, sm[1] = sm[2], sm[1], sm[2]) :
        c \in Categories \cup {"other"}, sm \in ScoreSamples}

\* checks whose ids have a critical, a high, a high, a medium, a low and no template
RecommendationSamples ==
    {Check(x, "technicalSeo", b, IF b THEN 10 ELSE 0, 10) :
        x \in {"schema-markup", "faq-section", "statistics", "meta-description",
               "page-speed", "subheadings"},
        b \in BOOLEAN}

SeqsUpTo(S, n) == UNION {[1..k -> S] : k \in 0..n}

InitFn ==
    /\ variant = "full"
    /\ page = FullBlank
    /\ includeAI = FALSE
    /\ apiKey = FALSE
    /\ pc = "idle"
    /\ resultMetadata = NoResultMetadata
    /\ attempts = [fetch |-> 0, claude |-> 0]
    /\ checks = <<>>
    /\ categories = emptyCategories
    /\ score = 0
    /\ allRecommendations = <<>>
    /\ topRecommendations = <<>>
    /\ aiAnalysis = [kind |-> "undefined"]
    /\ claudeResponse = [kind |-> "none"]
    /\ grade = "none"
    /\ error = "none"
    /\ call = NoCall
    /\ ApiIdle

CallScoreToGrade ==
    /\ call = NoCall
    /\ \E s \in (0 - GradeSlack)..(100 + GradeSlack) :
         call' = [fn |-> "scoreToGrade", arg |-> s, res |-> scoreToGrade(s)]
    /\ UNCHANGED <<analyzeVars, apiVars>>

CallCalculateCategoryScores ==
    /\ call = NoCall
    /\ \E cs \in SeqsUpTo(CategorySamples, MaxCategoryChecks) :
         call' = [fn |-> "calculateCategoryScores", arg |-> cs,
                  res |-> calculateCategoryScores(cs)]
    /\ UNCHANGED <<analyzeVars, apiVars>>

CallGenerateRecommendations ==
    /\ call = NoCall
    /\ \E cs \in SeqsUpTo(RecommendationSamples, MaxChecks) :
         call' = [fn |-> "generateRecommendations", arg |-> cs,
                  res |-> generateRecommendations("full", cs)]
    /\ UNCHANGED <<analyzeVars, apiVars>>

MaxTitleLen == 2  \* longest og:title, <title> or <h1> text

\* the texts of one element: blanks and the letter c
Texts(c) == SeqsUpTo({" ", c}, MaxTitleLen)

TitleDocs ==
    [og : {Absent} \cup {<<t>> : t \in Texts("o")},
     title : {Absent} \cup {<<t>> : t \in Texts("t")},
     h1 : {Absent} \cup {<<t>> : t \in Texts("h")}]

CallExtractTitle ==
    /\ call = NoCall
    /\ \E v \in {"lite", "full"}, d \in TitleDocs :
         call' = [fn |-> "extractTitle", arg |-> [variant |-> v, doc |-> d],
                  res |-> titleOf(v, d)]
    /\ UNCHANGED <<analyzeVars, apiVars>>

NextFn ==
    \/ CallScoreToGrade
    \/ CallCalculateCategoryScores
    \/ CallGenerateRecommendations
    \/ CallExtractTitle

SpecFn == InitFn /\ [][NextFn]_vars

(***************************************************************************)
(* The endpoints' pure parts.                                              *)
(***************************************************************************)
\* (x as number) || 0
orZero(x) == IF x = Absent THEN 0 ELSE x[1]

\* analyze/route.ts:28-29; m is the month of `now`
needsReset(metadata, m) ==
    metadata.scansResetDate = Absent \/ metadata.scansResetDate[1] # m

\* the publicMetadata written by the monthly reset (analyze/route.ts:35-41)
resetWrite(metadata, m) ==
    [metadata EXCEPT !.scansThisMonth = <<0>>, !.scansResetDate = <<m>>]

\* scansThisMonth >= FREE_SCANS_PER_MONTH (analyze/route.ts:45)
limitReached(scansThisMonth) == scansThisMonth >= FREE_SCANS_PER_MONTH

\* the publicMetadata written after an analysis (analyze/route.ts:81-87)
incrementWrite(currentMetadata) ==
    [currentMetadata EXCEPT
        !.scansThisMonth = <<orZero(currentMetadata.scansThisMonth) + 1>>,
        !.totalScans = <<orZero(currentMetadata.totalScans) + 1>>]

\* checkRateLimit with `record.count > DEMO_LIMIT`: one request too many
checkRateLimit_offByOne(map, ip, t) ==
    IF map[ip] = Absent \/ t > map[ip][1].resetTime
    THEN [map |-> [map EXCEPT ![ip] = <<[count |-> 1, resetTime |-> t + RATE_WINDOW]>>],
          allowed |-> TRUE]
    ELSE IF map[ip][1].count > DEMO_LIMIT
    THEN [map |-> map, allowed |-> FALSE]
    ELSE [map |-> [map EXCEPT ![ip] = <<[@[1] EXCEPT !.count = @ + 1]>>], allowed |-> TRUE]

\* checkRateLimit counting the requests it refuses as well
checkRateLimit_countsRefused(map, ip, t) ==
    IF map[ip] = Absent \/ t > map[ip][1].resetTime
    THEN [map |-> [map EXCEPT ![ip] = <<[count |-> 1, resetTime |-> t + RATE_WINDOW]>>],
          allowed |-> TRUE]
    ELSE [map |-> [map EXCEPT ![ip] = <<[@[1] EXCEPT !.count = @ + 1]>>],
          allowed |-> map[ip][1].count < DEMO_LIMIT]

\* checkRateLimit (demo-analyze/route.ts:10-25): the map after the call, and
\* what the call returns; t is Date.now()
checkRateLimit(map, ip, t) ==
    IF map[ip] = Absent \/ t > map[ip][1].resetTime
    THEN [map |-> [map EXCEPT ![ip] = <<[count |-> 1, resetTime |-> t + RATE_WINDOW]>>],
          allowed |-> TRUE]
    ELSE IF map[ip][1].count >= DEMO_LIMIT
    THEN [map |-> map, allowed |-> FALSE]
    ELSE [map |-> [map EXCEPT ![ip] = <<[@[1] EXCEPT !.count = @ + 1]>>], allowed |-> TRUE]

\* The values of body.url that are tried: a number and four strings, with what
\* the URL parser makes of each
UrlValues ==
    { [type |-> "number", text |-> "5", parses |-> FALSE, protocol |-> "none"],
      [type |-> "string", text |-> "", parses |-> FALSE, protocol |-> "none"],
      [type |-> "string", text |-> "example", parses |-> FALSE, protocol |-> "none"],
      [type |-> "string", text |-> "ftp://example.com/a", parses |-> TRUE, protocol |-> "ftp:"],
      [type |-> "string", text |-> "https://example.com/", parses |-> TRUE, protocol |-> "https:"] }

\* what request.json() does: it rejects, or resolves with null or with an object
Bodies ==
    {[json |-> "unparsable", url |-> Absent], [json |-> "null", url |-> Absent]}
    \cup {[json |-> "object", url |-> x] : x \in {Absent} \cup {<<u>> : u \in UrlValues}}

\* !url || typeof url !== 'string'
urlMissing(url) == url = Absent \/ url[1].type # "string" \/ url[1].text = ""

\* isValidUrl of @/lib/utils: the string parses as a URL whose protocol is
\* http: or https:
isValidUrl(u) == u.parses /\ u.protocol \in {"http:", "https:"}

\* An Error's message: its text, and which of the substrings the demo
\* endpoint looks for occur in it
Message(t, has) == [text |-> t, has |-> has]

\* String.prototype.includes
includes(m, w) == w \in m.has

\* the reason of AbortSignal.timeout(ms)
TimeoutError == Message("The operation was aborted due to timeout", {"timeout", "abort"})

\* throw new Error(`Failed to fetch page: ${response.status} ${response.statusText}`)
HttpStatusError == Message("Failed to fetch page: 404 Not Found", {})

\* new URL(url) inside the lightweight runAllChecks
ReferenceError == Message("url is not defined", {})

\* what a fetch that fails on the network rejects with
FetchFailures ==
    { Message("fetch failed", {}),
      Message("getaddrinfo ENOTFOUND example.com", {"ENOTFOUND", "getaddrinfo"}),
      Message("connect ECONNREFUSED 203.0.113.9:443", {"ECONNREFUSED"}),
      Message("unable to verify the first certificate", {"certificate"}) }

Response(st, e) == [status |-> st, error |-> e]

\* the url checks without the isValidUrl test
validation_noUrlCheck(body) ==
    IF urlMissing(body.url)
    THEN <<Response(400, "URL is required")>>
    ELSE Absent

\* the checks of body.url (analyze/route.ts:57-70, demo-analyze/route.ts:55-68):
\* the response that rejects the url, or none
validation(body) ==
    IF urlMissing(body.url)
    THEN <<Response(400, "URL is required")>>
    ELSE IF ~isValidUrl(body.url[1])
    THEN <<Response(400, "Invalid URL. Please enter a valid http or https URL.")>>
    ELSE Absent

\* the catch around analyzeUrl in the demo endpoint (demo-analyze/route.ts:77-115)
classify(m) ==
    IF includes(m, "timeout") \/ includes(m, "abort")
    THEN Response(504, "The page took too long to load. Please try again or try a different URL.")
    ELSE IF includes(m, "ENOTFOUND") \/ includes(m, "getaddrinfo")
    THEN Response(400, "Could not find that website. Please check the URL and try again.")
    ELSE IF includes(m, "ECONNREFUSED")
    THEN Response(502, "Could not connect to the website. It may be down or blocking our requests.")
    ELSE IF includes(m, "certificate") \/ includes(m, "SSL")
    THEN Response(502, "SSL certificate error. The website may have security issues.")
    ELSE Response(500, "Failed to analyze: " \o m.text)

\* the catch of the authenticated endpoint (analyze/route.ts:92-101)
internalError(m) == Response(500, m.text)

\* the catch that answers what analyzeUrl threw
catchOf(endpoint, m) == IF endpoint = "demo" THEN classify(m) ELSE internalError(m)

(***************************************************************************)
(* The handlers, one action per stretch of code between two awaits.  The   *)
(* body of a request is an input that the handler reads at request.json(); *)
(* a request answered before that keeps its body unread.                   *)
(***************************************************************************)
\* the pages a request may fetch: the base pages, and each with one http link
ApiPages(v) == BasePages(v) \cup {[p EXCEPT !.links = <<1, 1>>] : p \in BasePages(v)}

\* how the rule-based analysis of page p ends: the lite analyzer's link check
\* raises, or the checks give the overall score
analysisOf(v, p) ==
    LET cs == IF v = "lite" THEN runAllChecksLite(p) ELSE runAllChecks(p)
        raises == v = "lite" /\ liteExternalLinksRaises(p)
    IN [raises |-> raises,
        score |-> IF raises THEN 0 ELSE overallScore(calculateCategoryScores(cs))]

\* the ends of the analysis over the pages a request may fetch
AnalysisOutcomes ==
    [v \in {"lite", "full"} |-> {analysisOf(v, p) : p \in ApiPages(v)}]

\* what the narrative API may answer to a request: a failure, or a score
ApiClaudeOutcomes ==
    {[kind |-> "networkError"],
     [kind |-> "parsed",
      value |-> [kind |-> "analysis", aiReadinessScore |-> <<65>>, fallback |-> FALSE]]}

\* return NextResponse.json(...): the handler ends and its locals are gone
respond(req, response) ==
    [req EXCEPT !.pc = "done", !.status = response.status, !.errorText = response.error,
                !.metadata = NoMetadata, !.currentMetadata = NoMetadata,
                !.resetMonth = 0, !.score = 0]

\* the error is swallowed and an empty result returned
throw_returnsEmpty(req, m) ==
    IF req.endpoint = "demo" \/ req.isPro
    THEN respond([req EXCEPT !.thrown = m, !.result = <<[score |-> 0, grade |-> scoreToGrade(0)]>>],
                 Response(200, "none"))
    ELSE [req EXCEPT !.thrown = m, !.pc = "reread",
                     !.result = <<[score |-> 0, grade |-> scoreToGrade(0)]>>]

\* analyzeUrl throws m: the endpoint's catch answers
throw(req, m) ==
    respond([req EXCEPT !.thrown = m, !.result = Absent], catchOf(req.endpoint, m))

\* a Pro user's analysis is counted like a free user's
return_countsPro(req, s) ==
    LET withResult == [req EXCEPT !.result = <<[score |-> s, grade |-> scoreToGrade(s)]>>]
    IN IF req.endpoint = "demo"
       THEN respond(withResult, Response(200, "none"))
       ELSE [withResult EXCEPT !.pc = "reread"]

\* analyzeUrl returns with the final score s: the demo endpoint and a Pro
\* user's request answer at once, a free user's request reads the user again
return(req, s) ==
    LET withResult == [req EXCEPT !.result = <<[score |-> s, grade |-> scoreToGrade(s)]>>]
    IN IF req.endpoint = "demo" \/ req.isPro
       THEN respond(withResult, Response(200, "none"))
       ELSE [withResult EXCEPT !.pc = "reread"]

free(r) == requests[r].pc \in {"idle", "done"}

\* a request is handled in the first slot that is free
arrivesIn(r) == free(r) /\ \A q \in DOMAIN requests : q < r => ~free(q)

\* POST /api/analyze up to `await clerkClient.users.getUser(userId)`: auth()
\* gives the caller's userId, or none
ArriveAnalyze ==
    /\ arrivalsLeft["analyze"] > 0
    /\ \E r \in DOMAIN requests, userId \in Users \cup {"none"} :
         /\ arrivesIn(r)
         /\ LET req == [IdleRequest EXCEPT !.endpoint = "analyze", !.caller = userId]
            IN IF userId = "none"
               THEN \E unread \in Bodies :
                        requests' = [requests EXCEPT ![r] =
                            respond([req EXCEPT !.body = unread],
                                    Response(401, "Authentication required"))]
               ELSE requests' = [requests EXCEPT ![r] = [req EXCEPT !.pc = "getUser"]]
    /\ arrivalsLeft' = [arrivalsLeft EXCEPT !["analyze"] = @ - 1]
    /\ UNCHANGED <<analyzeVars, call, users, rateLimitMap, now, month, granted, admitted>>

\* getUser resolves; the limit check of a free user (analyze/route.ts:21-51)
GetUser ==
    /\ \E r \in DOMAIN requests, unread \in Bodies :
         /\ requests[r].pc = "getUser"
         /\ LET metadata == users[requests[r].caller]
                req == [requests[r] EXCEPT !.isPro = metadata.isPro]
            IN requests' = [requests EXCEPT ![r] =
                   IF metadata.isPro
                   THEN [req EXCEPT !.pc = "parsing"]
                   ELSE IF needsReset(metadata, month)
                   THEN [req EXCEPT !.metadata = metadata, !.resetMonth = month,
                                    !.pc = "resetting"]
                   ELSE IF limitReached(orZero(metadata.scansThisMonth))
                   THEN respond([req EXCEPT !.body = unread], Response(403,
                            "Monthly scan limit reached. Upgrade to Pro for unlimited scans."))
                   ELSE [req EXCEPT !.resetMonth = month, !.pc = "parsing"]]
    /\ UNCHANGED <<analyzeVars, call, users, rateLimitMap, now, month, arrivalsLeft,
                   granted, admitted>>

\* the reset's updateUser takes effect; scansThisMonth = 0, and the limit check
ResetCounter ==
    /\ \E r \in DOMAIN requests :
         /\ requests[r].pc = "resetting"
         /\ LET req == requests[r]
            IN /\ users' = [users EXCEPT ![req.caller] = resetWrite(req.metadata, req.resetMonth)]
               /\ requests' = [requests EXCEPT ![r] =
                      IF limitReached(0)
                      THEN respond(req, Response(403,
                               "Monthly scan limit reached. Upgrade to Pro for unlimited scans."))
                      ELSE [req EXCEPT !.metadata = NoMetadata, !.pc = "parsing"]]
    /\ UNCHANGED <<analyzeVars, call, rateLimitMap, now, month, arrivalsLeft, granted, admitted>>

\* POST /api/demo-analyze up to `await request.json()`: the caller's ip and
\* checkRateLimit(ip)
ArriveDemo ==
    /\ arrivalsLeft["demo"] > 0
    /\ \E r \in DOMAIN requests, ip \in IPs :
         /\ arrivesIn(r)
         /\ LET req == [IdleRequest EXCEPT !.endpoint = "demo", !.caller = ip]
                limit == checkRateLimit(rateLimitMap, ip, now)
            IN /\ rateLimitMap' = limit.map
               /\ IF limit.allowed
                  THEN requests' = [requests EXCEPT ![r] = [req EXCEPT !.pc = "parsing"]]
                  ELSE \E unread \in Bodies :
                           requests' = [requests EXCEPT ![r] =
                               respond([req EXCEPT !.body = unread], Response(429,
                                   "Rate limit reached. Please try again in an hour."))]
               /\ admitted' =
                      IF ~limit.allowed THEN admitted
                      ELSE IF admitted[ip].n = 0 \/ now > admitted[ip].start + RATE_WINDOW
                      THEN [admitted EXCEPT ![ip] = [start |-> now, n |-> 1, windows |-> @.windows + 1]]
                      ELSE [admitted EXCEPT ![ip].n = @ + 1]
    /\ arrivalsLeft' = [arrivalsLeft EXCEPT !["demo"] = @ - 1]
    /\ UNCHANGED <<analyzeVars, call, users, now, month, granted>>

\* request.json() settles; the url is checked and analyzeUrl called, which
\* runs up to its `await fetch(url, ...)`
ParseBody ==
    /\ \E r \in DOMAIN requests, body \in Bodies :
         /\ requests[r].pc = "parsing"
         /\ LET req == [requests[r] EXCEPT !.body = body]
                demo == req.endpoint = "demo"
            IN requests' = [requests EXCEPT ![r] =
                   IF body.json = "unparsable"
                   THEN IF demo THEN respond(req, Response(400, "Invalid request body"))
                        ELSE respond(req, internalError(Message("Unexpected end of JSON input", {})))
                   ELSE IF body.json = "null"
                   THEN IF demo
                        THEN respond(req, Response(500,
                                 "An unexpected error occurred. Please try again."))
                        ELSE respond(req, internalError(
                                 Message("Cannot destructure property 'url' of 'body' as it is null.", {})))
                   ELSE IF validation(body) # Absent
                   THEN respond(req, validation(body)[1])
                   ELSE [req EXCEPT !.invoked = TRUE, !.pc = "fetching",
                                    !.storedAtCall = IF demo THEN NoMetadata
                                                     ELSE users[req.caller]]]
    /\ UNCHANGED <<analyzeVars, call, users, rateLimitMap, now, month, arrivalsLeft,
                   granted, admitted>>

\* the page fetch settles on what the network does
FetchResponds ==
    /\ \E r \in DOMAIN requests :
         /\ requests[r].pc = "fetching"
         /\ \/ requests' = [requests EXCEPT ![r] =
                   [requests[r] EXCEPT !.fetched = "ok", !.pc = "reading"]]
            \/ requests' = [requests EXCEPT ![r] =
                   throw([requests[r] EXCEPT !.fetched = "notOk"], HttpStatusError)]
            \/ \E m \in FetchFailures :
                 requests' = [requests EXCEPT ![r] =
                     throw([requests[r] EXCEPT !.fetched = "rejects"], m)]
    /\ UNCHANGED <<analyzeVars, call, users, rateLimitMap, now, month, arrivalsLeft,
                   granted, admitted>>

\* AbortSignal.timeout fires first
FetchTimeout ==
    /\ \E r \in DOMAIN requests :
         /\ requests[r].pc = "fetching"
         /\ requests' = [requests EXCEPT ![r] =
                throw([requests[r] EXCEPT !.fetched = "timeout"], TimeoutError)]
    /\ UNCHANGED <<analyzeVars, call, users, rateLimitMap, now, month, arrivalsLeft,
                   granted, admitted>>

\* response.text() resolves with the page; the rule-based analysis, up to the
\* await of analyzeWithClaude or to the return (includeAI defaults to true)
Analyse ==
    /\ \E r \in DOMAIN requests, a \in AnalysisOutcomes[variant] :
         /\ requests[r].pc = "reading"
         /\ LET req == [requests[r] EXCEPT !.ranChecks = TRUE]
            IN requests' = [requests EXCEPT ![r] =
                   IF a.raises
                   THEN throw(req, ReferenceError)
                   ELSE IF apiKey
                   THEN [req EXCEPT !.score = a.score, !.calledClaude = TRUE, !.pc = "claude"]
                   ELSE return(req, a.score)]
    /\ UNCHANGED <<analyzeVars, call, users, rateLimitMap, now, month, arrivalsLeft,
                   granted, admitted>>

\* analyzeWithClaude resolves; the blend, the grade and analyzeUrl's return
ClaudeResponds ==
    /\ \E r \in DOMAIN requests, outcome \in ApiClaudeOutcomes :
         /\ requests[r].pc = "claude"
         /\ requests' = [requests EXCEPT ![r] =
                return(requests[r],
                       scoreAfterClaude(variant, analyzeWithClaude(outcome), requests[r].score))]
    /\ UNCHANGED <<analyzeVars, call, users, rateLimitMap, now, month, arrivalsLeft,
                   granted, admitted>>

\* const currentUser = await clerkClient.users.getUser(userId)
ReRead ==
    /\ \E r \in DOMAIN requests :
         /\ requests[r].pc = "reread"
         /\ requests' = [requests EXCEPT ![r] =
                [requests[r] EXCEPT !.currentMetadata = users[requests[r].caller],
                                    !.pc = "incrementing"]]
    /\ UNCHANGED <<analyzeVars, call, users, rateLimitMap, now, month, arrivalsLeft,
                   granted, admitted>>

\* the increment's updateUser takes effect, and the result is returned
Increment ==
    /\ \E r \in DOMAIN requests :
         /\ requests[r].pc = "incrementing"
         /\ LET req == requests[r]
            IN /\ users' = [users EXCEPT ![req.caller] = incrementWrite(req.currentMetadata)]
               /\ granted' = [granted EXCEPT ![req.caller][req.resetMonth] = @ + 1]
               /\ requests' = [requests EXCEPT ![r] =
                      respond([req EXCEPT !.incremented = TRUE], Response(200, "none"))]
    /\ UNCHANGED <<analyzeVars, call, rateLimitMap, now, month, arrivalsLeft, admitted>>

\* time passes
Tick ==
    /\ \E t \in TimePoints : t > now /\ now' = t
    /\ UNCHANGED <<analyzeVars, call, requests, users, rateLimitMap, month, arrivalsLeft,
                   granted, admitted>>

\* the calendar month changes
MonthTurns ==
    /\ month < MaxMonth
    /\ month' = month + 1
    /\ UNCHANGED <<analyzeVars, call, requests, users, rateLimitMap, now, arrivalsLeft,
                   granted, admitted>>

(***************************************************************************)
(* /api/analyze serving NumSlots requests at a time.  The free user starts *)
(* as a new user, or as the user that k analyses in month 0 leave.         *)
(***************************************************************************)
MaxAnalyzeArrivals == 2  \* requests that arrive at /api/analyze
MaxDemoArrivals == 1     \* requests that arrive at /api/demo-analyze, one at a time

FreeUserStates ==
    {NoMetadata}
    \cup {[isPro |-> FALSE, scansThisMonth |-> <<k>>, scansResetDate |-> <<0>>,
           totalScans |-> <<k>>] : k \in 0..FREE_SCANS_PER_MONTH}

\* the Pro user has no counters stored, or the counters an earlier free month
\* left at the limit
ProUserStates ==
    {[NoMetadata EXCEPT !.isPro = TRUE],
     [isPro |-> TRUE, scansThisMonth |-> <<FREE_SCANS_PER_MONTH>>, scansResetDate |-> <<0>>,
      totalScans |-> <<FREE_SCANS_PER_MONTH>>]}

\* no run of the single analyzeUrl of Spec, no direct call
AnalyzerIdle ==
    /\ page = FullBlank
    /\ includeAI = TRUE
    /\ pc = "idle"
    /\ resultMetadata = NoResultMetadata
    /\ attempts = [fetch |-> 0, claude |-> 0]
    /\ checks = <<>>
    /\ categories = emptyCategories
    /\ score = 0
    /\ allRecommendations = <<>>
    /\ topRecommendations = <<>>
    /\ aiAnalysis = [kind |-> "undefined"]
    /\ claudeResponse = [kind |-> "none"]
    /\ grade = "none"
    /\ error = "none"
    /\ call = NoCall

InitApi ==
    /\ variant \in {"lite", "full"}
    /\ apiKey \in BOOLEAN
    /\ AnalyzerIdle
    /\ requests = [r \in Slots |-> IdleRequest]
    /\ \E md \in FreeUserStates :
         /\ users = [u \in Users |->
                        IF u = "proUser" THEN [NoMetadata EXCEPT !.isPro = TRUE] ELSE md]
         /\ granted = [u \in Users |-> [m \in 0..MaxMonth |->
                        IF u = "freeUser" /\ m = 0 THEN orZero(md.scansThisMonth) ELSE 0]]
    /\ rateLimitMap = [ip \in IPs |-> Absent]
    /\ now = 0
    /\ month = 0
    /\ arrivalsLeft = [e \in Endpoints |-> IF e = "analyze" THEN MaxAnalyzeArrivals ELSE 0]
    /\ admitted = [ip \in IPs |-> [start |-> 0, n |-> 0, windows |-> 0]]

NextApi ==
    \/ ArriveAnalyze
    \/ GetUser
    \/ ResetCounter
    \/ ParseBody
    \/ FetchResponds
    \/ FetchTimeout
    \/ Analyse
    \/ ClaudeResponds
    \/ ReRead
    \/ Increment
    \/ MonthTurns

SpecApi == InitApi /\ [][NextApi]_vars

\* both endpoints, one request at a time
InitOne ==
    /\ variant \in {"lite", "full"}
    /\ apiKey \in BOOLEAN
    /\ AnalyzerIdle
    /\ requests = [r \in {1} |-> IdleRequest]
    /\ \E md \in FreeUserStates, pro \in ProUserStates :
         /\ users = [u \in Users |-> IF u = "proUser" THEN pro ELSE md]
         /\ granted = [u \in Users |-> [m \in 0..MaxMonth |->
                        IF u = "freeUser" /\ m = 0 THEN orZero(md.scansThisMonth) ELSE 0]]
    /\ rateLimitMap = [ip \in IPs |-> Absent]
    /\ now = 0
    /\ month = 0
    /\ arrivalsLeft = [e \in Endpoints |->
                          IF e = "analyze" THEN MaxAnalyzeArrivals ELSE MaxDemoArrivals]
    /\ admitted = [ip \in IPs |-> [start |-> 0, n |-> 0, windows |-> 0]]

NextOne ==
    \/ ArriveAnalyze
    \/ GetUser
    \/ ResetCounter
    \/ ArriveDemo
    \/ ParseBody
    \/ FetchResponds
    \/ FetchTimeout
    \/ Analyse
    \/ ClaudeResponds
    \/ ReRead
    \/ Increment
    \/ MonthTurns

SpecOne == InitOne /\ [][NextOne]_vars

(***************************************************************************)
(* The demo endpoint alone, one request at a time, from an empty           *)
(* rateLimitMap, for more requests than a window admits.                   *)
(***************************************************************************)
MaxRateArrivals == 12  \* requests that arrive at /api/demo-analyze

InitRate ==
    /\ variant = "full"
    /\ apiKey = TRUE
    /\ AnalyzerIdle
    /\ requests = [r \in {1} |-> IdleRequest]
    /\ users = [u \in Users |-> [NoMetadata EXCEPT !.isPro = (u = "proUser")]]
    /\ granted = [u \in Users |-> [m \in 0..MaxMonth |-> 0]]
    /\ rateLimitMap = [ip \in IPs |-> Absent]
    /\ now = 0
    /\ month = 0
    /\ arrivalsLeft = [e \in Endpoints |-> IF e = "demo" THEN MaxRateArrivals ELSE 0]
    /\ admitted = [ip \in IPs |-> [start |-> 0, n |-> 0, windows |-> 0]]

NextRate ==
    \/ ArriveDemo
    \/ ParseBody
    \/ FetchResponds
    \/ FetchTimeout
    \/ Analyse
    \/ ClaudeResponds
    \/ Tick

SpecRate == InitRate /\ [][NextRate]_vars

(***************************************************************************)
(* Properties of the analysis.                                             *)
(***************************************************************************)
ranRuleBased == pc \in {"scored", "claude", "returned"}

\* the rule-based score, recomputed from the returned categories
ruleBasedScore == overallScore(categories)

\* C1: the overall score of the AnalysisResult that analyzeUrl returns is an
\* integer in [0,100], whatever the page and whatever the narrative analyzer
\* answered (a parsed aiReadinessScore below 0 or above 100 included).
C1_ScoreWithinBounds ==
    pc = "returned" => score \in 0..100

\* C2: when the narrative analyzer call fails (network error, non-2xx status,
\* unparseable response) with includeAI set and a credential configured, the
\* returned score is the unblended rule-based score and aiAnalysis is absent.
C2_FailedClaudeLeavesRuleScore ==
    (pc = "returned" /\ claudeResponse.kind \in ClaudeFailures)
        => (score = ruleBasedScore /\ aiAnalysis.kind = "undefined")

\* C3: a check that raises does not abort the battery: the full list of 25
\* Check entries is still returned, the raising check recorded as passed=false
\* with score 0.
C3_RaisingCheckIsIsolated ==
    (variant = "lite" /\ liteExternalLinksRaises(page) /\ pc \in {"scored", "rejected"}
     /\ error \notin {"Failed to fetch", "fetch rejected", "TimeoutError"})
        => /\ pc = "scored"
           /\ Len(checks) = 25
           /\ \E i \in DOMAIN checks :
                checks[i].id = "external-links" /\ ~checks[i].passed /\ checks[i].score = 0

\* C4: the final score is round(0.6 * external + 0.4 * ruleBased) exactly when
\* includeAI is set, a credential is configured and the analyzer returned a
\* score > 0; otherwise it is the rule-based score; the grade is always the
\* grade of the final score.
C4_BlendOnlyPositiveScore ==
    pc = "returned" =>
        LET positive == /\ includeAI /\ apiKey
                        /\ aiAnalysis.kind = "analysis"
                        /\ aiAnalysis.aiReadinessScore # Absent
                        /\ aiAnalysis.aiReadinessScore[1] > 0
        IN /\ score = IF positive
                      THEN MathRound(6 * aiAnalysis.aiReadinessScore[1] + 4 * ruleBasedScore, 10)
                      ELSE ruleBasedScore
           /\ grade = scoreToGrade(score)

\* C5: every Check of the battery has maxScore > 0 and 0 <= score <= maxScore,
\* and every CategoryScore computed from the battery has a percentage in [0,100].
C5_CheckAndCategoryBounds ==
    ranRuleBased =>
        /\ \A i \in DOMAIN checks :
             /\ checks[i].maxScore > 0
             /\ checks[i].score >= 0
             /\ checks[i].score <= checks[i].maxScore
        /\ \A k \in Categories : categories[k].percentage \in 0..100

\* a full page whose FAQ check earned the schema bonus, with a check at 0 beside it
C5_Witness ==
    /\ pc = "scored"
    /\ variant = "full"
    /\ \E i \in DOMAIN checks :
         checks[i].id = "faq-section" /\ checks[i].score = checks[i].maxScore
    /\ \E i \in DOMAIN checks : checks[i].score = 0
    /\ \E k \in Categories : categories[k].percentage = 100

GradeRank == [A |-> 4, B |-> 3, C |-> 2, D |-> 1, F |-> 0]

\* C6: scoreToGrade maps a score >= 90 to A, 80..89 to B, 70..79 to C, 60..69
\* to D and anything lower to F (so 90, 80, 70, 60 get the higher grade), and
\* no lower score gets a better grade.
C6_GradeBands ==
    call.fn = "scoreToGrade" =>
        LET s == call.arg
            g == call.res
        IN /\ g = (CASE s >= 90 -> "A"
                     [] s >= 80 /\ s <= 89 -> "B"
                     [] s >= 70 /\ s <= 79 -> "C"
                     [] s >= 60 /\ s <= 69 -> "D"
                     [] s < 60 -> "F")
           /\ \A t \in (0 - GradeSlack)..s : GradeRank[scoreToGrade(t)] <= GradeRank[g]

\* scoreToGrade was applied to a boundary value
C6_Witness ==
    call.fn = "scoreToGrade" /\ call.arg \in {60, 70, 80, 90} /\ call.res \in {"A", "B", "C", "D"}

\* the sum of field f over the checks of cs whose category is k
RECURSIVE SumIn(_, _, _)
SumIn(cs, k, f) ==
    IF cs = <<>> THEN 0
    ELSE (IF Head(cs).category = k THEN Head(cs)[f] ELSE 0) + SumIn(Tail(cs), k, f)

\* x is num/den rounded to the nearest integer, halves upwards
IsRounded(x, num, den) == 2 * den * x <= 2 * num + den /\ 2 * num + den < 2 * den * (x + 1)

\* C7: for each of the five categories calculateCategoryScores returns the sums
\* of score and maxScore over the category's checks, percentage =
\* round(100 * score / maxScore) (0 when maxScore is 0), and status good for a
\* percentage >= 70, warning for 40..69, poor below.
C7_CategoryScores ==
    call.fn = "calculateCategoryScores" =>
        /\ DOMAIN call.res = Categories
        /\ \A k \in Categories :
             LET c == call.res[k]
             IN /\ c.score = SumIn(call.arg, k, "score")
                /\ c.maxScore = SumIn(call.arg, k, "maxScore")
                /\ IF c.maxScore = 0 THEN c.percentage = 0
                   ELSE IsRounded(c.percentage, 100 * c.score, c.maxScore)
                /\ c.status = (CASE c.percentage >= 70 -> "good"
                                 [] c.percentage >= 40 /\ c.percentage < 70 -> "warning"
                                 [] OTHER -> "poor")

\* two checks of one category summing to 6 of 16 (37.5, rounded to 38), another
\* category left without checks
C7_Witness ==
    /\ call.fn = "calculateCategoryScores"
    /\ \E k \in Categories :
         /\ Cardinality({i \in DOMAIN call.arg : call.arg[i].category = k}) = 2
         /\ call.res[k].score = 6 /\ call.res[k].maxScore = 16 /\ call.res[k].percentage = 38
    /\ \E k \in Categories : call.res[k].maxScore = 0 /\ call.res[k].percentage = 0

\* C8: the rule-based overall score is round(100 * (sum of the five category
\* scores) / (sum of the five category maxScores)), and that denominator is
\* not zero for a battery produced by runAllChecks.
C8_OverallScoreWeightedByPoints ==
    pc \in {"scored", "claude"} =>
        LET total == categories.contentStructure.score + categories.citationReadiness.score
                     + categories.technicalSeo.score + categories.credibilitySignals.score
                     + categories.aiSpecificFactors.score
            max == categories.contentStructure.maxScore + categories.citationReadiness.maxScore
                   + categories.technicalSeo.maxScore + categories.credibilitySignals.maxScore
                   + categories.aiSpecificFactors.maxScore
        IN /\ max > 0
           /\ IsRounded(score, 100 * total, max)

\* a rule-based score that differs from the mean of the category percentages
C8_Witness ==
    /\ pc = "scored"
    /\ score > 0
    /\ ~IsRounded(score,
                  categories.contentStructure.percentage + categories.citationReadiness.percentage
                  + categories.technicalSeo.percentage + categories.credibilitySignals.percentage
                  + categories.aiSpecificFactors.percentage, 5)

\* the ids of the failed checks of cs whose template has priority q, in order
RECURSIVE FailedWithPriority(_, _)
FailedWithPriority(cs, q) ==
    IF cs = <<>> THEN <<>>
    ELSE (IF /\ ~Head(cs).passed
             /\ Head(cs).id \in DOMAIN checkToRecommendationTable
             /\ checkToRecommendationTable[Head(cs).id] = q
          THEN <<Head(cs).id>> ELSE <<>>) \o FailedWithPriority(Tail(cs), q)

\* the ids of the recommendations of rs that have priority q, in order
RECURSIVE IdsWithPriority(_, _)
IdsWithPriority(rs, q) ==
    IF rs = <<>> THEN <<>>
    ELSE (IF Head(rs).priority = q THEN <<Head(rs).id>> ELSE <<>>)
         \o IdsWithPriority(Tail(rs), q)

PriorityRank == [critical |-> 1, high |-> 2, medium |-> 3, low |-> 4]

\* C9: generateRecommendations returns the recommendations ordered critical,
\* high, medium, low, and recommendations of equal priority keep the order
\* their failing checks have in the check list.
C9_SortedAndStable ==
    call.fn = "generateRecommendations" =>
        /\ \A i, j \in DOMAIN call.res :
             i < j => PriorityRank[call.res[i].priority] <= PriorityRank[call.res[j].priority]
        /\ \A q \in DOMAIN PriorityRank :
             IdsWithPriority(call.res, q) = FailedWithPriority(call.arg, q)

\* the failing priorities medium, critical, high, critical give critical,
\* critical, high, medium
C9_Witness ==
    /\ call.fn = "generateRecommendations"
    /\ Len(call.arg) = 4
    /\ \A i \in 1..4 : ~call.arg[i].passed
    /\ [i \in 1..4 |-> call.arg[i].id]
         = <<"meta-description", "schema-markup", "faq-section", "schema-markup">>
    /\ [i \in DOMAIN call.res |-> call.res[i].priority]
         = <<"critical", "critical", "high", "medium">>

\* C10: allRecommendations holds exactly one recommendation for each check
\* that failed and whose id has a template, and nothing else: every
\* recommendation carries the id of a failed check that has a template.
C10_OnePerFailedTemplatedCheck ==
    ranRuleBased =>
        /\ \A i \in DOMAIN checks :
             LET n == Cardinality({j \in DOMAIN allRecommendations :
                                      allRecommendations[j].id = checks[i].id})
             IN IF ~checks[i].passed /\ checks[i].id \in DOMAIN recsTable(variant)
                THEN n = 1 ELSE n = 0
        /\ \A j \in DOMAIN allRecommendations :
             \E i \in DOMAIN checks :
                /\ checks[i].id = allRecommendations[j].id
                /\ ~checks[i].passed

\* recommendations exist while a check with a template passed and a failed
\* check has no template
C10_Witness ==
    /\ pc = "scored"
    /\ Len(allRecommendations) > 0
    /\ \E i \in DOMAIN checks : checks[i].passed /\ checks[i].id \in DOMAIN recsTable(variant)
    /\ \E i \in DOMAIN checks : ~checks[i].passed /\ checks[i].id \notin DOMAIN recsTable(variant)

\* C11: topRecommendations has at most 5 entries and is the first (up to) 5
\* entries of the priority-sorted allRecommendations, in the same order; in the
\* full analyzer, which filters, these are the first (up to) 5 critical or high
\* entries and nothing else.  No entry of it is missing from allRecommendations.
C11_TopIsPrefixOfSorted ==
    ranRuleBased =>
        LET eligible ==
                IF variant = "full"
                THEN Cardinality({i \in DOMAIN allRecommendations :
                                     allRecommendations[i].priority \in {"critical", "high"}})
                ELSE Len(allRecommendations)
        IN /\ Len(topRecommendations) <= 5
           /\ Len(topRecommendations) <= Len(allRecommendations)
           /\ Len(topRecommendations) = (IF eligible < 5 THEN eligible ELSE 5)
           /\ \A i \in DOMAIN topRecommendations :
                 topRecommendations[i] = allRecommendations[i]
           /\ variant = "full" =>
                 \A i \in DOMAIN topRecommendations :
                    topRecommendations[i].priority \in {"critical", "high"}

\* the full analyzer found more than five critical or high recommendations and
\* some of lower priority: the sixth was cut and the lower ones filtered out
C11_Witness ==
    /\ pc = "scored"
    /\ variant = "full"
    /\ Len(topRecommendations) = 5
    /\ Len(allRecommendations) > 6
    /\ allRecommendations[6].priority = "high"
    /\ \E i \in DOMAIN allRecommendations : allRecommendations[i].priority = "medium"

\* C12: a check never throws for a well-formed page (pages with absolute
\* http(s) links, without paragraphs, images or text included): once the page
\* is fetched, runAllChecks completes and the analysis is scored.
C12_ChecksNeverThrow ==
    [][pc = "fetched" => pc' = "scored"]_vars

\* an element's text counts as present when it has a non-blank character
hasText(x) == x # Absent /\ trim(x[1]) # <<>>

\* C20: the extracted title is the og:title meta content when present,
\* otherwise the text of <title>, otherwise the text of the first <h1>; it is
\* empty only when all three are absent.
C20_TitlePrecedence ==
    call.fn = "extractTitle" =>
        LET d == call.arg.doc
        IN /\ call.res = (IF hasText(d.og) THEN trim(d.og[1])
                          ELSE IF hasText(d.title) THEN trim(d.title[1])
                          ELSE IF hasText(d.h1) THEN trim(d.h1[1]) ELSE <<>>)
           /\ call.res = <<>> => ~hasText(d.og) /\ ~hasText(d.title) /\ ~hasText(d.h1)

\* C14: analyzeUrl eventually returns a result or an error even when the
\* narrative analyzer never responds: the narrative call is bounded by a
\* timeout of its own.
C14_AnalyzeUrlReturns ==
    <>(pc \in {"returned", "rejected"})

(***************************************************************************)
(* Properties of the endpoints.                                            *)
(***************************************************************************)
answered(r) == requests[r].pc = "done"

\* what either endpoint answers to a failure it does not classify
GenericStatus == 500

\* C13: when the page fetch times out, the caller of /api/analyze or of
\* /api/demo-analyze receives a failure classified as a timeout, which differs
\* from the generic internal-error response in status and in message.
C13_TimeoutClassified ==
    \A r \in DOMAIN requests :
        (answered(r) /\ requests[r].fetched = "timeout")
            => /\ requests[r].status # GenericStatus
               /\ requests[r].status >= 400
               /\ requests[r].errorText # catchOf(requests[r].endpoint, HttpStatusError).error

\* C15: a free user is never granted more than 3 successful analyses within
\* one calendar month, however the user's requests to /api/analyze interleave;
\* a request made when scansThisMonth >= 3 is answered 403 without an analysis.
C15_FreeQuotaHolds ==
    /\ \A m \in 0..MaxMonth : granted["freeUser"][m] <= FREE_SCANS_PER_MONTH
    /\ \A r \in DOMAIN requests :
           (answered(r) /\ requests[r].status = 403)
               => ~requests[r].invoked /\ requests[r].result = Absent

\* C16: within one rate window at most DEMO_LIMIT requests of an IP are
\* admitted by /api/demo-analyze; the count stored for an IP never exceeds
\* DEMO_LIMIT; the first request after resetTime starts a new window, with
\* count 1 (the stored record is the count of the requests admitted in the
\* window that began with such a request, and ends RATE_WINDOW after it).
C16_DemoRateLimit ==
    \A ip \in IPs :
        /\ admitted[ip].n <= DEMO_LIMIT
        /\ IF admitted[ip].n = 0
           THEN rateLimitMap[ip] = Absent
           ELSE /\ rateLimitMap[ip] # Absent
                /\ rateLimitMap[ip][1].count = admitted[ip].n
                /\ rateLimitMap[ip][1].count <= DEMO_LIMIT
                /\ rateLimitMap[ip][1].resetTime = admitted[ip].start + RATE_WINDOW

\* a window that began after an earlier one ran out has filled up, and the
\* next request of the IP was answered 429
C16_Witness ==
    \E r \in DOMAIN requests :
        /\ answered(r) /\ requests[r].status = 429
        /\ admitted[requests[r].caller].n = DEMO_LIMIT
        /\ admitted[requests[r].caller].windows > 1
        /\ rateLimitMap[requests[r].caller][1].count = DEMO_LIMIT

fetchFailed(r) == requests[r].fetched \in {"notOk", "rejects", "timeout"}

\* C17: when the page fetch fails or the page answers with a non-2xx status,
\* the analysis aborts: no check, no scoring and no narrative call run, the
\* caller gets an error response, and the user's scansThisMonth and
\* totalScans are what they were when analyzeUrl was called.
C17_FetchFailureAborts ==
    \A r \in DOMAIN requests :
        (answered(r) /\ fetchFailed(r))
            => /\ ~requests[r].ranChecks
               /\ ~requests[r].calledClaude
               /\ requests[r].result = Absent
               /\ requests[r].status >= 400
               /\ requests[r].errorText # "none"
               /\ ~requests[r].incremented
               /\ requests[r].endpoint = "analyze"
                     => /\ users[requests[r].caller].scansThisMonth
                              = requests[r].storedAtCall.scansThisMonth
                        /\ users[requests[r].caller].totalScans
                              = requests[r].storedAtCall.totalScans

\* a free user with scans on the counter was answered after the page
\* answered with a non-2xx status
C17_Witness ==
    \E r \in DOMAIN requests :
        /\ answered(r) /\ requests[r].fetched = "notOk"
        /\ requests[r].endpoint = "analyze" /\ requests[r].caller = "freeUser"
        /\ orZero(users["freeUser"].scansThisMonth) > 0

\* the url of the request's body is missing, not a string, or not valid
urlRejected(r) ==
    \/ requests[r].body.json # "object"
    \/ urlMissing(requests[r].body.url)
    \/ ~isValidUrl(requests[r].body.url[1])

\* C18 as stated: a request whose url is missing, not a string, or rejected
\* by isValidUrl is answered with status 400, and analyzeUrl is never invoked
\* for it.
C18_InvalidUrlIs400 ==
    \A r \in DOMAIN requests :
        (answered(r) /\ urlRejected(r))
            => requests[r].status = 400 /\ ~requests[r].invoked

\* the request was answered before its body was read
gateStatus(r) ==
    IF requests[r].endpoint = "analyze" THEN {401, 403} ELSE {429}

\* C18, amended: analyzeUrl is never invoked for such a request, and the
\* answer is never a success.  The answer is 400 when the request passed the
\* gates before the validation and its body parsed to an object; a gate
\* answers 401 or 403 (/api/analyze) or 429 (/api/demo-analyze) without
\* reading the body; a body that parses to null is answered 500, and one that
\* does not parse 500 by /api/analyze and 400 by /api/demo-analyze.
C18_InvalidUrlRejected ==
    \A r \in DOMAIN requests :
        (requests[r].pc # "idle" /\ requests[r].body.json # "none" /\ urlRejected(r))
            => /\ answered(r)
               /\ ~requests[r].invoked
               /\ requests[r].result = Absent
               /\ \/ requests[r].status \in gateStatus(r)
                  \/ /\ requests[r].body.json = "object"
                     /\ requests[r].status = 400
                  \/ /\ requests[r].body.json = "null"
                     /\ requests[r].status = 500
                  \/ /\ requests[r].body.json = "unparsable"
                     /\ requests[r].status
                          = IF requests[r].endpoint = "demo" THEN 400 ELSE 500

\* a request that passed the gates with a url of another scheme was answered
C18_Witness ==
    \E r \in DOMAIN requests :
        /\ answered(r) /\ requests[r].status = 400
        /\ requests[r].body.json = "object"
        /\ ~urlMissing(requests[r].body.url)
        /\ ~isValidUrl(requests[r].body.url[1])

(***************************************************************************)
(* Properties of the analysis of particular pages.                         *)
(***************************************************************************)
\* the measurements taken on the <head> and on the transfer, not on the <body>
HeadFields(v) ==
    IF v = "lite" THEN {"descriptionLength", "hasCanonical", "loadTime"}
    ELSE {"descriptionLength", "hasCanonical", "loadTime", "titleLength", "ogTags",
          "hasViewport", "jsonLd"}

BlankPage(v) == IF v = "lite" THEN LiteBlank ELSE FullBlank

\* a page whose <body> is empty: no word, no element
emptyBody(v, p) ==
    \A f \in DOMAIN p : f \notin HeadFields(v) => p[f] = BlankPage(v)[f]

checkWithId(cs, id) == CHOOSE c \in {cs[i] : i \in DOMAIN cs} : c.id = id

hasCheck(cs, id) == \E i \in DOMAIN cs : cs[i].id = id

\* C21: for a successfully fetched page with an empty body, analyzeUrl throws
\* nothing and what it returns is complete: all the checks, a grade, and the
\* content-length check failed with 0 of 10, metadata.wordCount 0, and the
\* readability grade 'N/A' with the sentinel score.
C21_EmptyBodyAnalysed ==
    emptyBody(variant, page)
        => /\ pc = "rejected" => error \in {"Failed to fetch", "fetch rejected", "TimeoutError"}
           /\ pc = "returned"
                => /\ Len(checks) = IF variant = "lite" THEN 15 ELSE 31
                   /\ grade \in {"A", "B", "C", "D", "F"}
                   /\ score \in Int
                   /\ hasCheck(checks, "content-length")
                   /\ ~checkWithId(checks, "content-length").passed
                   /\ checkWithId(checks, "content-length").score = 0
                   /\ checkWithId(checks, "content-length").maxScore = 10
                   /\ resultMetadata.wordCount = 0
                   /\ resultMetadata.readabilityGrade = "N/A"
                   /\ resultMetadata.readabilityScore = <<readabilitySentinel(variant)>>

\* an empty page that is not the blank base page was analysed, with the
\* narrative call, and returned
C21_Witness ==
    /\ emptyBody(variant, page) /\ page # BlankPage(variant)
    /\ pc = "returned" /\ claudeResponse.kind # "none"

\* C22: within one analysis the page fetch is attempted at most once and the
\* narrative call at most once; neither is tried again after it failed.
C22_SingleAttempts ==
    /\ attempts.fetch <= 1
    /\ attempts.claude <= 1
    /\ pc \in {"fetching", "fetched", "scored", "claude", "returned", "rejected"}
          => attempts.fetch = 1
    /\ pc = "claude" \/ claudeResponse.kind # "none" => attempts.claude = 1

\* an analysis returned after its narrative call failed
C22_Witness ==
    /\ pc = "returned"
    /\ claudeResponse.kind \in ClaudeFailures
    /\ attempts = [fetch |-> 1, claude |-> 1]

(***************************************************************************)
(* Properties of the scoring under a change of the order of the checks.    *)
(***************************************************************************)
\* the list with the checks at positions i and j exchanged
swap(cs, i, j) == [cs EXCEPT ![i] = cs[j], ![j] = cs[i]]

C24_ContentLengthGrading ==
    hasCheck(checks, "content-length")
        => LET c == checkWithId(checks, "content-length")
               w == resultMetadata.wordCount
           IN /\ c.maxScore = 10
              /\ c.score = (IF w >= 1500 THEN 10 ELSE IF w >= 800 THEN 7
                            ELSE IF w >= 400 THEN 3 ELSE 0)
              /\ c.passed <=> w >= 800

\* C25: the page-speed check is graded on the load time t in milliseconds:
\* t < 1500 gives 10, 1500 <= t < 3000 gives 7, 3000 <= t < 5000 gives 3 and
\* t >= 5000 gives 0, always out of 10, and it passes exactly when t < 3000.
C25_PageSpeedGrading ==
    hasCheck(checks, "page-speed")
        => LET c == checkWithId(checks, "page-speed")
               t == resultMetadata.loadTime
           IN /\ c.maxScore = 10
              /\ c.score = (IF t < 1500 THEN 10 ELSE IF t < 3000 THEN 7
                            ELSE IF t < 5000 THEN 3 ELSE 0)
              /\ c.passed <=> t < 3000

\* the checks that count elements or pattern matches, or take a ratio of counts
CountBased(v) ==
    IF v = "lite"
    THEN {"single-h1", "subheadings", "content-length", "external-links"}
    ELSE {"heading-hierarchy", "single-h1", "subheadings", "paragraph-structure",
          "definitions", "content-length", "has-lists", "statistics",
          "quotable-statements", "specific-claims", "sentence-clarity",
          "dates-timelines", "open-graph", "image-alt-text", "source-citations",
          "external-links"}

\* the page has none of what the check with this id counts
zeroMatches(p, id) ==
    CASE id \in {"heading-hierarchy", "single-h1", "subheadings"} -> p.headings = <<>>
      [] id = "paragraph-structure" -> p.paragraphs[2] = 0
      [] id = "definitions" -> p.definitionMatches = 0
      [] id = "content-length" -> p.wordCount = 0
      [] id = "has-lists" -> p.uls + p.ols = 0
      [] id = "statistics" -> p.statMatches = 0
      [] id = "quotable-statements" -> p.quotableSentences = 0
      [] id = "specific-claims" -> p.claimMatches = 0
      [] id = "sentence-clarity" -> p.sentences[2] = 0
      [] id = "dates-timelines" -> p.dateMatches = 0
      [] id = "open-graph" -> p.ogTags = 0
      [] id = "image-alt-text" -> p.images[2] = 0
      [] id = "source-citations" -> p.citationMatches = 0
      [] id = "external-links" -> p.links = <<0, 0>>

degraded(c) == c.score = 0 /\ ~c.passed

\* C26 as stated: every count- or ratio-based check has passed=false and
\* score 0 when the page has none of what it looks for, image-alt-text on a
\* page without images included.
C26_ZeroMatchesScoreZero ==
    \A i \in DOMAIN checks :
        (checks[i].id \in CountBased(variant) /\ zeroMatches(page, checks[i].id))
            => degraded(checks[i])

\* C26, amended: every count- or ratio-based check other than image-alt-text
\* has passed=false and score 0 when the page has none of what it looks for;
\* image-alt-text on a page without images passes with its full 6 points.
C26_ZeroMatchesDegrade ==
    \A i \in DOMAIN checks :
        (checks[i].id \in CountBased(variant) /\ zeroMatches(page, checks[i].id))
            => IF checks[i].id = "image-alt-text"
               THEN /\ checks[i].passed
                    /\ checks[i].score = 6
                    /\ checks[i].maxScore = 6
               ELSE degraded(checks[i])

\* the full battery ran on a page without paragraphs, sentences and images
C26_Witness ==
    /\ variant = "full" /\ pc = "scored"
    /\ page.paragraphs[2] = 0 /\ page.sentences[2] = 0 /\ page.images[2] = 0
    /\ hasCheck(checks, "paragraph-structure") /\ hasCheck(checks, "image-alt-text")

\* C27: a check of the battery has score = maxScore only when it passed, so
\* that no check with full points is treated as failed and turned into a
\* recommendation.
C27_FullScoreOnlyWhenPassed ==
    /\ \A i \in DOMAIN checks : checks[i].score = checks[i].maxScore => checks[i].passed
    /\ \A k \in DOMAIN allRecommendations :
           hasCheck(checks, allRecommendations[k].id)
               => LET c == checkWithId(checks, allRecommendations[k].id)
                  IN c.score < c.maxScore

(***************************************************************************)
(* Properties of the stored counters.                                      *)
(***************************************************************************)
\* the successful analyses of a free user in the months 0 .. m
RECURSIVE successesUpTo(_, _)
successesUpTo(u, m) ==
    IF m < 0 THEN 0 ELSE granted[u][m] + successesUpTo(u, m - 1)

\* C28: under any interleaving, the k successful analyses of a free user
\* raise the stored totalScans by exactly k and, within one month, the stored
\* scansThisMonth by exactly k: no increment is lost, and no field written by
\* a concurrent request is overwritten with a stale value.
C28_NoLostIncrement ==
    /\ orZero(users["freeUser"].totalScans) = successesUpTo("freeUser", MaxMonth)
    /\ (month = 0 /\ users["freeUser"].scansResetDate = <<0>>)
          => orZero(users["freeUser"].scansThisMonth) = granted["freeUser"][0]

(***************************************************************************)
(* Properties of the writes of the endpoints.                              *)
(***************************************************************************)
\* the requests of ip counted in the window that is running at time t
windowCount(map, ip, t) ==
    IF map[ip] = Absent \/ t > map[ip][1].resetTime THEN 0 ELSE map[ip][1].count

\* a request arrives at /api/demo-analyze in this step
demoArrival == arrivalsLeft'["demo"] # arrivalsLeft["demo"]

\* the count stored for ip, 0 while the map has no record of it
storedCount(map, ip) == IF map[ip] = Absent THEN 0 ELSE map[ip][1].count

\* C29 as stated: a request to the demo endpoint that is not answered 429
\* raises the count stored for its IP by exactly one, before any validation
\* and whatever happens to it afterwards; a request answered 429 leaves the
\* record unchanged; no request changes another IP's record.
C29_StoredCountRaisedByOne ==
    [][ /\ demoArrival
          => \E r \in DOMAIN requests :
                 LET q == requests'[r]
                     ip == q.caller
                 IN /\ q.endpoint = "demo"
                    /\ \A other \in IPs \ {ip} : rateLimitMap'[other] = rateLimitMap[other]
                    /\ \/ /\ q.pc = "done" /\ q.status = 429
                          /\ rateLimitMap' = rateLimitMap
                       \/ /\ q.pc = "parsing"
                          /\ storedCount(rateLimitMap', ip) = storedCount(rateLimitMap, ip) + 1
        /\ ~demoArrival => rateLimitMap' = rateLimitMap ]_vars

\* C29, amended: the demo endpoint consumes the rate-limit budget before any
\* validation: a request of an IP that is not answered 429 raises by exactly
\* one the IP's count in the window running at its arrival (the record of an
\* expired window counts 0 and is replaced by one with count 1), whatever
\* happens to it afterwards (400, a failed analysis, success: no later step of
\* a request touches the record); a request answered 429 leaves the record
\* unchanged; no request changes another IP's record.
C29_BudgetConsumedOnArrival ==
    [][ /\ demoArrival
          => \E r \in DOMAIN requests :
                 LET q == requests'[r]
                     ip == q.caller
                 IN /\ q.endpoint = "demo"
                    /\ \A other \in IPs \ {ip} : rateLimitMap'[other] = rateLimitMap[other]
                    /\ \/ /\ q.pc = "done" /\ q.status = 429
                          /\ rateLimitMap' = rateLimitMap
                       \/ /\ q.pc = "parsing"
                          /\ windowCount(rateLimitMap', ip, now)
                                = windowCount(rateLimitMap, ip, now) + 1
        /\ ~demoArrival => rateLimitMap' = rateLimitMap ]_vars

\* a request with an unparsable body was answered 400 after an earlier request
\* of the same IP in the same window, the second window of the IP: the IP's
\* count stands at 2, the other IP has no record
C29_Witness ==
    \E r \in DOMAIN requests :
        /\ answered(r) /\ requests[r].endpoint = "demo" /\ requests[r].status = 400
        /\ requests[r].body.json = "unparsable"
        /\ rateLimitMap[requests[r].caller] # Absent
        /\ rateLimitMap[requests[r].caller][1].count = 2
        /\ admitted[requests[r].caller].windows = 2
        /\ \E other \in IPs \ {requests[r].caller} : rateLimitMap[other] = Absent

\* C30: a Pro user's request to /api/analyze is never answered 403, and no step
\* writes the Pro user's stored metadata (no reset, no increment), whatever
\* counters and reset date are stored and however many requests the user makes
C30_ProNeverLimitedNorWritten ==
    [][ /\ users'["proUser"] = users["proUser"]
        /\ granted'["proUser"] = granted["proUser"]
        /\ \A r \in DOMAIN requests :
               requests'[r].endpoint = "analyze" /\ requests'[r].caller = "proUser"
                   => /\ requests'[r].status # 403
                      /\ requests'[r].pc \notin {"resetting", "reread", "incrementing"}
                      /\ ~requests'[r].incremented ]_vars

\* the Pro user, whose stored counter stands at the limit with a reset date of
\* an earlier month, has made every request of the run and the last one was
\* answered with a result
C30_Witness ==
    /\ orZero(users["proUser"].scansThisMonth) >= FREE_SCANS_PER_MONTH
    /\ needsReset(users["proUser"], month)
    /\ arrivalsLeft["analyze"] = 0
    /\ \E r \in DOMAIN requests :
          /\ answered(r) /\ requests[r].caller = "proUser"
          /\ requests[r].endpoint = "analyze"
          /\ requests[r].status = 200
          /\ requests[r].isPro

====
